---- MODULE Spec2Model ----
(***************************************************************************)
(* Model of the motion-synchronised scroll controller of Noise chat:       *)
(*   - CalibrationService  (src/unnamed/part_005)                          *)
(*   - MotionService       (src/src/services/MotionService.ts)             *)
(*   - useIMUMotion        (src/src/hooks/useIMUMotion.ts), as it is used  *)
(*     by DisplayScreen    (src/src/screens/DisplayScreen.tsx)             *)
(*   - the safety utility  (src/src/utils/safety.ts)                       *)
(*                                                                         *)
(* Each object is one variable holding a record of its fields.  A method   *)
(* is an operator from the object's record to its new record; a handler    *)
(* that crosses objects is an operator on the "world" record [cs, ms, hk]. *)
(*                                                                         *)
(* Numbers.  The services' velocities and the scroll offset are exact      *)
(* rationals <<n, d>> (d > 0, lowest terms): the sample values used are    *)
(* small integers, whose sums are exact in binary64, and the claims about  *)
(* them compare against 0.5, 2.0, 8.0 and the clamp bounds, which one      *)
(* rounding of a quotient cannot cross.  The safety utility is modelled in *)
(* IEEE-754 binary64 itself (see the Float section), because its claims    *)
(* are about the values the divisions return.                              *)
(*                                                                         *)
(* Timers (setTimeout / setInterval) are pending records carrying their    *)
(* delay; a pending timer may fire at any later step.  Single-threaded     *)
(* JavaScript: every handler runs to completion, so it is one action.      *)
(***************************************************************************)
EXTENDS Integers, Sequences, FiniteSets, TLC

VARIABLES
    cs,      \* the CalibrationService singleton
    ms,      \* the MotionService singleton
    hk,      \* the mounted DisplayScreen / useIMUMotion instance
    sessions,\* per display session: the pending initialize() and its effects
    env,     \* the device: sensor hardware, readings delivered so far
    sf       \* a call of the safety utility: its arguments and results

vars == <<cs, ms, hk, sessions, env, sf>>

---------------------------------------------------------------------------
(* Bounds of the model *)

\* Samples one calibration run may collect before the model stops feeding it
MaxSamples == 11
\* Display sessions (mounts of DisplayScreen) in one run
MaxSessions == 2
\* Sensor readings the device delivers in one run
MaxReadings == 2
\* Changes of the window width in one run
MaxDimensionChanges == 1
\* Sensor readings delivered to the MotionService when it is driven alone
MaxMotionReadings == 3
\* Presses of the Stop button while an earlier handleStop still waits
MaxPendingStops == 1
\* Sensor readings in the runs that follow a steady stream up to the
\* reading on which the MotionService calibrates itself
MaxStreamReadings == 12
\* Sensor readings delivered to the MotionService when its velocity history
\* is followed until it is full and shifts
MaxHistoryReadings == 13
\* Changes of the window width in the runs that follow the fallback sweep
\* through a width that is not usable and back
MaxFallbackDimensionChanges == 2

---------------------------------------------------------------------------
(* Rationals *)

RECURSIVE GCD(_, _)
GCD(a, b) == IF b = 0 THEN a ELSE GCD(b, a % b)

Abs(x) == IF x < 0 THEN -x ELSE x

\* n/d in lowest terms, d > 0
Rat(n, d) ==
    LET g == GCD(Abs(n), Abs(d))
        s == IF d < 0 THEN -1 ELSE 1
    IN  <<(s * n) \div g, (s * d) \div g>>

RInt(n) == <<n, 1>>
RAdd(x, y) == Rat(x[1] * y[2] + y[1] * x[2], x[2] * y[2])
RMul(x, y) == Rat(x[1] * y[1], x[2] * y[2])
RDivInt(x, k) == Rat(x[1], x[2] * k)
RLess(x, y) == x[1] * y[2] < y[1] * x[2]
RLeq(x, y) == x[1] * y[2] <= y[1] * x[2]
RMin(x, y) == IF RLess(y, x) THEN y ELSE x
RMax(x, y) == IF RLess(x, y) THEN y ELSE x
RAbs(x) == <<Abs(x[1]), x[2]>>

\* The numbers that are not finite have the denominator 0
NaN == <<0, 0>>
Infinity == <<1, 0>>
\* isFiniteNumber (useIMUMotion.ts 34-36)
isFiniteNumber(x) == x[2] # 0
\* The integer a finite whole number is
IntOf(x) == x[1] \div x[2]
\* x + y, Math.min(x, y), Math.max(x, y) and x <= 0 of JavaScript numbers
NumAdd(x, y) ==
    IF isFiniteNumber(x) /\ isFiniteNumber(y) THEN RAdd(x, y)
    ELSE IF x = NaN \/ y = NaN THEN NaN
    ELSE IF ~isFiniteNumber(x) /\ ~isFiniteNumber(y) /\ x # y THEN NaN
    ELSE IF isFiniteNumber(x) THEN y ELSE x
NumLess(x, y) ==
    /\ x # NaN /\ y # NaN /\ x # y
    /\ IF isFiniteNumber(x) /\ isFiniteNumber(y) THEN RLess(x, y)
       ELSE IF isFiniteNumber(x) THEN y[1] > 0 ELSE x[1] < 0
NumMin(x, y) ==
    IF x = NaN \/ y = NaN THEN NaN ELSE IF NumLess(y, x) THEN y ELSE x
NumMax(x, y) ==
    IF x = NaN \/ y = NaN THEN NaN ELSE IF NumLess(x, y) THEN y ELSE x
NumNotPositive(x) == x # NaN /\ (x = RInt(0) \/ NumLess(x, RInt(0)))

RECURSIVE RSum(_)
RSum(s) == IF s = <<>> THEN RInt(0) ELSE RAdd(Head(s), RSum(Tail(s)))

\* Array.prototype.includes / filter over a listener array
Includes(s, x) == \E i \in 1..Len(s) : s[i] = x
Without(s, x) == SelectSeq(s, LAMBDA y : y # x)

---------------------------------------------------------------------------
(* CalibrationService *)

SAMPLES_NEEDED == 10
VELOCITY_THRESHOLD == Rat(1, 2)
TEMPO_SLOW_THRESHOLD == RInt(2)
TEMPO_FAST_THRESHOLD == RInt(8)
CALIBRATION_DURATION == 1000
METRONOME_INTERVAL == 500

Directions == {"left", "right", "stationary"}

NoTimer == [pending |-> FALSE]
Timer(delay) == [pending |-> TRUE, delay |-> delay]

NoData == [null |-> TRUE]
CalibrationData(speed, direction) ==
    [null |-> FALSE, speed |-> speed, direction |-> direction]

\* The object as constructed.  Beside the fields of the class the record
\* keeps what the last public call or timer callback did: success, ticks and
\* tempoHaptics count its haptic calls of each kind, notified its
\* notifyListeners() calls, and outbox holds the snapshots those calls
\* broadcast until they are delivered to the listeners, and timeouts counts
\* its setTimeout calls.  intervals counts
\* the setInterval timers of the metronome that were set and not cleared.
CalibrationServiceInit ==
    [state |-> [isCalibrating |-> FALSE,
                isCalibrated |-> FALSE,
                progress |-> RInt(0),
                calibrationData |-> NoData,
                tempoIndicator |-> "too-slow",
                metronomeEnabled |-> TRUE],
     listeners |-> <<>>,
     metronomeInterval |-> NoTimer,
     intervals |-> 0,
     calibrationTimeout |-> NoTimer,
     velocitySamples |-> <<>>,
     outbox |-> <<>>,
     success |-> 0,
     ticks |-> 0,
     tempoHaptics |-> 0,
     notified |-> 0,
     timeouts |-> 0]

\* Entry of a public call or timer callback: the per-call records restart
Enter(c) ==
    [c EXCEPT !.success = 0, !.ticks = 0, !.tempoHaptics = 0, !.notified = 0,
              !.timeouts = 0, !.outbox = <<>>]

\* calculateTempoIndicator with the thresholds themselves outside the band
calculateTempoIndicator_Inclusive(velocity) ==
    IF RLeq(velocity, TEMPO_SLOW_THRESHOLD) THEN "too-slow"
    ELSE IF RLeq(TEMPO_FAST_THRESHOLD, velocity) THEN "too-fast"
    ELSE "ok"

calculateTempoIndicator(velocity) ==
    IF RLess(velocity, TEMPO_SLOW_THRESHOLD) THEN "too-slow"
    ELSE IF RLess(TEMPO_FAST_THRESHOLD, velocity) THEN "too-fast"
    ELSE "ok"

\* getAverageVelocity with the division by the sample count left out
getAverageVelocity_Sum(c) ==
    IF Len(c.velocitySamples) = 0 THEN RInt(0)
    ELSE RSum(c.velocitySamples)

getAverageVelocity(c) ==
    IF Len(c.velocitySamples) = 0 THEN RInt(0)
    ELSE RDivInt(RSum(c.velocitySamples), Len(c.velocitySamples))

\* getState() is a copy of state; the listeners receive it (see DeliverCal)
notifyListeners(c) ==
    [c EXCEPT !.notified = @ + 1, !.outbox = Append(@, c.state)]

playMetronomeHaptic(c) == [c EXCEPT !.ticks = @ + 1]

playSuccessHaptic(c) == [c EXCEPT !.success = @ + 1]

\* startMetronome without its first line, the test for a running interval
startMetronome_NoGuard(c) ==
    [playMetronomeHaptic(c) EXCEPT
       !.metronomeInterval = Timer(METRONOME_INTERVAL),
       !.intervals = @ + 1]

startMetronome(c) ==
    IF c.metronomeInterval.pending THEN c
    ELSE [playMetronomeHaptic(c) EXCEPT
            !.metronomeInterval = Timer(METRONOME_INTERVAL),
            !.intervals = @ + 1]

stopMetronome(c) ==
    IF c.metronomeInterval.pending
    THEN [c EXCEPT !.metronomeInterval = NoTimer, !.intervals = @ - 1]
    ELSE c

\* startCalibration without its first line, the return when calibrating
startCalibration_Restarts(c) ==
    LET c1 == notifyListeners(
                [c EXCEPT !.velocitySamples = <<>>,
                          !.state.isCalibrating = TRUE,
                          !.state.isCalibrated = FALSE,
                          !.state.progress = RInt(0),
                          !.state.calibrationData = NoData])
        c2 == IF c1.state.metronomeEnabled THEN startMetronome(c1) ELSE c1
    IN  [c2 EXCEPT !.calibrationTimeout = Timer(CALIBRATION_DURATION),
                   !.timeouts = @ + 1]

\* startCalibration leaving isCalibrated as it is
startCalibration_KeepsCalibrated(c) ==
    IF c.state.isCalibrating THEN c
    ELSE
      LET c1 == notifyListeners(
                  [c EXCEPT !.velocitySamples = <<>>,
                            !.state.isCalibrating = TRUE,
                            !.state.progress = RInt(0),
                            !.state.calibrationData = NoData])
          c2 == IF c1.state.metronomeEnabled THEN startMetronome(c1) ELSE c1
      IN  [c2 EXCEPT !.calibrationTimeout = Timer(CALIBRATION_DURATION),
                     !.timeouts = @ + 1]

startCalibration(c) ==
    IF c.state.isCalibrating THEN c
    ELSE
      LET c1 == notifyListeners(
                  [c EXCEPT !.velocitySamples = <<>>,
                            !.state.isCalibrating = TRUE,
                            !.state.isCalibrated = FALSE,
                            !.state.progress = RInt(0),
                            !.state.calibrationData = NoData])
          c2 == IF c1.state.metronomeEnabled THEN startMetronome(c1) ELSE c1
      IN  [c2 EXCEPT !.calibrationTimeout = Timer(CALIBRATION_DURATION),
                     !.timeouts = @ + 1]

\* completeCalibration without the clearTimeout of its first lines
completeCalibration_KeepsTimeout(c, direction) ==
    LET c1 == stopMetronome(c)
        avgVelocity == getAverageVelocity(c1)
        calibrationData ==
            CalibrationData(avgVelocity,
                            IF direction = "stationary" THEN "right"
                            ELSE direction)
        c2 == [c1 EXCEPT !.state.isCalibrating = FALSE,
                         !.state.isCalibrated = TRUE,
                         !.state.progress = RInt(1),
                         !.state.calibrationData = calibrationData,
                         !.state.tempoIndicator =
                             calculateTempoIndicator(avgVelocity)]
    IN  playSuccessHaptic(notifyListeners(c2))

completeCalibration(c, direction) ==
    LET c1 == stopMetronome([c EXCEPT !.calibrationTimeout = NoTimer])
        avgVelocity == getAverageVelocity(c1)
        calibrationData ==
            CalibrationData(avgVelocity,
                            IF direction = "stationary" THEN "right"
                            ELSE direction)
        c2 == [c1 EXCEPT !.state.isCalibrating = FALSE,
                         !.state.isCalibrated = TRUE,
                         !.state.progress = RInt(1),
                         !.state.calibrationData = calibrationData,
                         !.state.tempoIndicator =
                             calculateTempoIndicator(avgVelocity)]
    IN  playSuccessHaptic(notifyListeners(c2))

\* addVelocitySample completing with completeCalibration(), the direction of
\* the sample not passed on
addVelocitySample_DefaultDirection(c, velocity, direction) ==
    IF ~c.state.isCalibrating THEN c
    ELSE
      LET c1 == [c EXCEPT !.velocitySamples = Append(@, velocity)]
          progress == RMin(Rat(Len(c1.velocitySamples), SAMPLES_NEEDED),
                           RInt(1))
          c2 == notifyListeners(
                  [c1 EXCEPT !.state.progress = progress,
                             !.state.tempoIndicator =
                                 calculateTempoIndicator(velocity)])
      IN  IF /\ Len(c2.velocitySamples) >= SAMPLES_NEEDED
             /\ RLess(VELOCITY_THRESHOLD, getAverageVelocity(c2))
          THEN completeCalibration(c2, "right")
          ELSE c2

addVelocitySample(c, velocity, direction) ==
    IF ~c.state.isCalibrating THEN c
    ELSE
      LET c1 == [c EXCEPT !.velocitySamples = Append(@, velocity)]
          progress == RMin(Rat(Len(c1.velocitySamples), SAMPLES_NEEDED),
                           RInt(1))
          c2 == notifyListeners(
                  [c1 EXCEPT !.state.progress = progress,
                             !.state.tempoIndicator =
                                 calculateTempoIndicator(velocity)])
      IN  IF /\ Len(c2.velocitySamples) >= SAMPLES_NEEDED
             /\ RLess(VELOCITY_THRESHOLD, getAverageVelocity(c2))
          THEN completeCalibration(c2, direction)
          ELSE c2

\* stopCalibration clearing the calibration data as well
stopCalibration_ClearsData(c) ==
    LET c1 == stopMetronome([c EXCEPT !.calibrationTimeout = NoTimer])
    IN  notifyListeners(
          [c1 EXCEPT !.velocitySamples = <<>>,
                     !.state.isCalibrating = FALSE,
                     !.state.progress = RInt(0),
                     !.state.calibrationData = NoData])

stopCalibration(c) ==
    LET c1 == stopMetronome([c EXCEPT !.calibrationTimeout = NoTimer])
    IN  notifyListeners(
          [c1 EXCEPT !.velocitySamples = <<>>,
                     !.state.isCalibrating = FALSE,
                     !.state.progress = RInt(0)])

\* recalibrate without its stopCalibration
CalibrationService_recalibrate_NoStop(c) == startCalibration(c)

CalibrationService_recalibrate(c) == startCalibration(stopCalibration(c))

reset(c) ==
    LET c1 == stopCalibration(c)
    IN  notifyListeners(
          [c1 EXCEPT !.state =
              [isCalibrating |-> FALSE,
               isCalibrated |-> FALSE,
               progress |-> RInt(0),
               calibrationData |-> NoData,
               tempoIndicator |-> "too-slow",
               metronomeEnabled |-> c1.state.metronomeEnabled]])

\* updateTempoIndicator without the comparison with the present indicator
updateTempoIndicator_AlwaysNotifies(c, velocity) ==
    notifyListeners(
        [c EXCEPT !.state.tempoIndicator = calculateTempoIndicator(velocity)])

updateTempoIndicator(c, velocity) ==
    LET tempoIndicator == calculateTempoIndicator(velocity)
    IN  IF tempoIndicator # c.state.tempoIndicator
        THEN notifyListeners([c EXCEPT !.state.tempoIndicator = tempoIndicator])
        ELSE c

setMetronomeEnabled(c, enabled) ==
    LET c1 == [c EXCEPT !.state.metronomeEnabled = enabled]
        c2 == IF ~enabled /\ c1.metronomeInterval.pending
              THEN stopMetronome(c1)
              ELSE IF enabled /\ c1.state.isCalibrating
              THEN startMetronome(c1)
              ELSE c1
    IN  notifyListeners(c2)

addListener(c, callback) ==
    IF Includes(c.listeners, callback) THEN c
    ELSE [c EXCEPT !.listeners = Append(@, callback)]

removeListener(c, callback) ==
    [c EXCEPT !.listeners = Without(@, callback)]

\* The setTimeout callback of startCalibration: completeCalibration() with
\* the default direction 'right'
calibrationTimeoutCallback(c) == completeCalibration(c, "right")

\* The setInterval callback of startMetronome
metronomeIntervalCallback(c) == playMetronomeHaptic(c)

playTempoHaptic(c, tempo) ==
    IF ~c.state.metronomeEnabled THEN c
    ELSE [c EXCEPT !.tempoHaptics = @ + 1]

---------------------------------------------------------------------------
(* MotionService *)

VELOCITY_SAMPLES == 10
CALIBRATION_THRESHOLD == Rat(1, 2)
MOTION_TEMPO_SLOW_THRESHOLD == RInt(2)
MOTION_TEMPO_FAST_THRESHOLD == RInt(8)
\* deltaTime < 0.1 s, in the milliseconds of Date.now()
DELTA_TIME_CEILING_MS == 100

\* The object as constructed.  Beside the fields of the class, deviceListeners
\* counts the listeners it holds on DeviceMotion (addListener calls not yet
\* undone by remove()), and delivered lists the callbacks the last sensor
\* reading or call invoked, in order.
MotionServiceInit ==
    [subscription |-> FALSE,
     deviceListeners |-> 0,
     listeners |-> <<>>,
     stateListeners |-> <<>>,
     velocityHistory |-> <<>>,
     lastTimestamp |-> 0,
     currentVelocity |-> RInt(0),
     currentDirection |-> "stationary",
     isCalibrated |-> FALSE,
     calibrationData |-> NoData,
     hasPermission |-> FALSE,
     isAvailable |-> FALSE,
     delivered |-> <<>>]

MotionEnter(m) == [m EXCEPT !.delivered = <<>>]

\* startMonitoring without the guard against a duplicate callback
startMonitoring_NoDuplicateGuard(m, callback) ==
    LET m1 == [m EXCEPT !.listeners = Append(@, callback)]
    IN  IF ~m1.subscription
        THEN [m1 EXCEPT !.velocityHistory = <<>>,
                        !.lastTimestamp = 0,
                        !.currentVelocity = RInt(0),
                        !.currentDirection = "stationary",
                        !.isCalibrated = FALSE,
                        !.subscription = TRUE,
                        !.deviceListeners = @ + 1]
        ELSE m1

\* startMonitoring without the body of the sensor callback, which is
\* sensorCallback below
startMonitoring(m, callback) ==
    IF Includes(m.listeners, callback) THEN m
    ELSE
      LET m1 == [m EXCEPT !.listeners = Append(@, callback)]
      IN  IF ~m1.subscription
          THEN [m1 EXCEPT !.velocityHistory = <<>>,
                          !.lastTimestamp = 0,
                          !.currentVelocity = RInt(0),
                          !.currentDirection = "stationary",
                          !.isCalibrated = FALSE,
                          !.subscription = TRUE,
                          !.deviceListeners = @ + 1]
          ELSE m1

getTempoIndicator(m) ==
    IF RLess(m.currentVelocity, MOTION_TEMPO_SLOW_THRESHOLD) THEN "too-slow"
    ELSE IF RLess(MOTION_TEMPO_FAST_THRESHOLD, m.currentVelocity) THEN "too-fast"
    ELSE "ok"

getState(m) ==
    [isAvailable |-> m.isAvailable,
     hasPermission |-> m.hasPermission,
     isCalibrated |-> m.isCalibrated,
     velocity |-> m.currentVelocity,
     direction |-> m.currentDirection,
     tempoIndicator |-> getTempoIndicator(m),
     calibrationData |-> m.calibrationData]

addStateListener(m, callback) ==
    IF Includes(m.stateListeners, callback) THEN m
    ELSE [m EXCEPT !.stateListeners = Append(@, callback)]

removeStateListener(m, callback) ==
    [m EXCEPT !.stateListeners = Without(@, callback)]

stopMonitoring(m) ==
    [m EXCEPT !.subscription = FALSE,
              !.deviceListeners = IF m.subscription THEN @ - 1 ELSE @,
              !.listeners = <<>>,
              !.stateListeners = <<>>,
              !.velocityHistory = <<>>,
              !.lastTimestamp = 0,
              !.currentVelocity = RInt(0),
              !.currentDirection = "stationary",
              !.isCalibrated = FALSE]

\* removeListener leaving the subscription as it is
MotionService_removeListener_KeepsSubscription(m, callback) ==
    [m EXCEPT !.listeners = Without(@, callback)]

MotionService_removeListener(m, callback) ==
    LET m1 == [m EXCEPT !.listeners = Without(@, callback)]
    IN  IF Len(m1.listeners) = 0 /\ m1.subscription
        THEN [m1 EXCEPT !.subscription = FALSE, !.deviceListeners = @ - 1]
        ELSE m1

\* recalibrate without its broadcast, which is notifyStateListeners below
MotionService_recalibrate(m) ==
    [m EXCEPT !.isCalibrated = FALSE,
              !.calibrationData = NoData,
              !.velocityHistory = <<>>]

\* processReading without the bounds on deltaTime
processReading_AnyDeltaTime(m, rotationX, accelerationX, timestamp) ==
    LET deltaMs == IF m.lastTimestamp > 0 THEN timestamp - m.lastTimestamp
                   ELSE 0
        m1 == [m EXCEPT !.lastTimestamp = timestamp]
    IN  IF m.lastTimestamp > 0
        THEN
          LET velocityEstimate == RAdd(RAbs(rotationX), RAbs(accelerationX))
              pushed == Append(m1.velocityHistory, velocityEstimate)
              history == IF Len(pushed) > VELOCITY_SAMPLES THEN Tail(pushed)
                         ELSE pushed
              avg == RDivInt(RSum(history), Len(history))
              direction ==
                  IF RLess(CALIBRATION_THRESHOLD, RAbs(rotationX))
                  THEN (IF RLess(RInt(0), rotationX) THEN "right" ELSE "left")
                  ELSE "stationary"
              m2 == [m1 EXCEPT !.velocityHistory = history,
                               !.currentVelocity = avg,
                               !.currentDirection = direction]
              calibrates ==
                  /\ ~m2.isCalibrated
                  /\ Len(history) >= VELOCITY_SAMPLES
                  /\ RLess(CALIBRATION_THRESHOLD, avg)
          IN  IF calibrates
              THEN [m |-> [m2 EXCEPT
                             !.calibrationData =
                                 CalibrationData(avg,
                                     IF direction = "stationary" THEN "right"
                                     ELSE direction),
                             !.isCalibrated = TRUE],
                    calibrates |-> TRUE]
              ELSE [m |-> m2, calibrates |-> FALSE]
        ELSE [m |-> m1, calibrates |-> FALSE]

\* processReading calibrating before the history is full
processReading_BeforeFull(m, rotationX, accelerationX, timestamp) ==
    LET deltaMs == IF m.lastTimestamp > 0 THEN timestamp - m.lastTimestamp
                   ELSE 0
        m1 == [m EXCEPT !.lastTimestamp = timestamp]
    IN  IF deltaMs > 0 /\ deltaMs < DELTA_TIME_CEILING_MS
        THEN
          LET velocityEstimate == RAdd(RAbs(rotationX), RAbs(accelerationX))
              pushed == Append(m1.velocityHistory, velocityEstimate)
              history == IF Len(pushed) > VELOCITY_SAMPLES THEN Tail(pushed)
                         ELSE pushed
              avg == RDivInt(RSum(history), Len(history))
              direction ==
                  IF RLess(CALIBRATION_THRESHOLD, RAbs(rotationX))
                  THEN (IF RLess(RInt(0), rotationX) THEN "right" ELSE "left")
                  ELSE "stationary"
              m2 == [m1 EXCEPT !.velocityHistory = history,
                               !.currentVelocity = avg,
                               !.currentDirection = direction]
              calibrates ==
                  /\ ~m2.isCalibrated
                  /\ RLess(CALIBRATION_THRESHOLD, avg)
          IN  IF calibrates
              THEN [m |-> [m2 EXCEPT
                             !.calibrationData =
                                 CalibrationData(avg,
                                     IF direction = "stationary" THEN "right"
                                     ELSE direction),
                             !.isCalibrated = TRUE],
                    calibrates |-> TRUE]
              ELSE [m |-> m2, calibrates |-> FALSE]
        ELSE [m |-> m1, calibrates |-> FALSE]

\* The sensor callback up to the auto-calibration test (lines 106-144):
\* the new sampler fields, and in calibrates whether this reading
\* auto-calibrates (and so broadcasts once more, line 145)
processReading(m, rotationX, accelerationX, timestamp) ==
    LET deltaMs == IF m.lastTimestamp > 0 THEN timestamp - m.lastTimestamp
                   ELSE 0
        m1 == [m EXCEPT !.lastTimestamp = timestamp]
    IN  IF deltaMs > 0 /\ deltaMs < DELTA_TIME_CEILING_MS
        THEN
          LET velocityEstimate == RAdd(RAbs(rotationX), RAbs(accelerationX))
              pushed == Append(m1.velocityHistory, velocityEstimate)
              history == IF Len(pushed) > VELOCITY_SAMPLES THEN Tail(pushed)
                         ELSE pushed
              avg == RDivInt(RSum(history), Len(history))
              direction ==
                  IF RLess(CALIBRATION_THRESHOLD, RAbs(rotationX))
                  THEN (IF RLess(RInt(0), rotationX) THEN "right" ELSE "left")
                  ELSE "stationary"
              m2 == [m1 EXCEPT !.velocityHistory = history,
                               !.currentVelocity = avg,
                               !.currentDirection = direction]
              calibrates ==
                  /\ ~m2.isCalibrated
                  /\ Len(history) >= VELOCITY_SAMPLES
                  /\ RLess(CALIBRATION_THRESHOLD, avg)
          IN  IF calibrates
              THEN [m |-> [m2 EXCEPT
                             !.calibrationData =
                                 CalibrationData(avg,
                                     IF direction = "stationary" THEN "right"
                                     ELSE direction),
                             !.isCalibrated = TRUE],
                    calibrates |-> TRUE]
              ELSE [m |-> m2, calibrates |-> FALSE]
        ELSE [m |-> m1, calibrates |-> FALSE]

---------------------------------------------------------------------------
(* Float: IEEE-754 binary64, the JavaScript number type                    *)
(*                                                                         *)
(* A finite non-zero number is s * M * 2^e with 2^52 <= M < 2^53; M is a   *)
(* little-endian tuple of limbs in base 2^15 (TLC's integers are 32 bits   *)
(* wide).  Division and multiplication round to nearest, ties to even, as  *)
(* the hardware does.  The exponent is unbounded: no value of the model    *)
(* comes near the overflow or subnormal range.                             *)

LimbBase == 32768

BigZero == <<0, 0, 0, 0, 0>>
\* n < 2^30
BigFromInt(n) == <<n % LimbBase, n \div LimbBase, 0, 0, 0>>
BigIsZero(x) == x = BigZero
BigOdd(x) == x[1] % 2 = 1

\* The limbs are computed one by one into a tuple: TLC evaluates a tuple's
\* elements when it builds it, so a long chain of operations stays linear.
HalfBase == LimbBase \div 2

BigDbl(x) ==
    <<(2 * x[1]) % LimbBase,
      (2 * x[2] + x[1] \div HalfBase) % LimbBase,
      (2 * x[3] + x[2] \div HalfBase) % LimbBase,
      (2 * x[4] + x[3] \div HalfBase) % LimbBase,
      (2 * x[5] + x[4] \div HalfBase) % LimbBase>>

BigShr1(x) ==
    <<x[1] \div 2 + (x[2] % 2) * HalfBase,
      x[2] \div 2 + (x[3] % 2) * HalfBase,
      x[3] \div 2 + (x[4] % 2) * HalfBase,
      x[4] \div 2 + (x[5] % 2) * HalfBase,
      x[5] \div 2>>

\* The borrows of x - y into limbs 2..5 and out of limb 5; the last is 1
\* exactly when x < y
BigBorrow(x, y) ==
    LET b2 == IF x[1] < y[1] THEN 1 ELSE 0
        b3 == IF x[2] - b2 < y[2] THEN 1 ELSE 0
        b4 == IF x[3] - b3 < y[3] THEN 1 ELSE 0
        b5 == IF x[4] - b4 < y[4] THEN 1 ELSE 0
        b6 == IF x[5] - b5 < y[5] THEN 1 ELSE 0
    IN  <<0, b2, b3, b4, b5, b6>>

BigGeq(x, y) == BigBorrow(x, y)[6] = 0

\* x - y, for x >= y
BigSub(x, y) ==
    LET bor == BigBorrow(x, y)
    IN  <<(x[1] - y[1] - bor[1] + LimbBase) % LimbBase,
          (x[2] - y[2] - bor[2] + LimbBase) % LimbBase,
          (x[3] - y[3] - bor[3] + LimbBase) % LimbBase,
          (x[4] - y[4] - bor[4] + LimbBase) % LimbBase,
          (x[5] - y[5] - bor[5] + LimbBase) % LimbBase>>

\* x * k + c, for 0 <= k < 2^15 and 0 <= c < 2^15
BigMulAdd(x, k, c) ==
    LET t1 == x[1] * k + c
        t2 == x[2] * k + t1 \div LimbBase
        t3 == x[3] * k + t2 \div LimbBase
        t4 == x[4] * k + t3 \div LimbBase
        t5 == x[5] * k + t4 \div LimbBase
    IN  <<t1 % LimbBase, t2 % LimbBase, t3 % LimbBase, t4 % LimbBase,
          t5 % LimbBase>>

\* x + 1
BigInc(x) == BigMulAdd(x, 1, 1)

\* x * k, for 0 <= k < 2^15
BigMulSmall(x, k) == BigMulAdd(x, k, 0)

\* 2^52, 2^53: bit 52 is bit 7 of the fourth limb
Two52 == <<0, 0, 0, 128, 0>>
Two53 == <<0, 0, 0, 256, 0>>

FNaN == [k |-> "nan"]
FInf(s) == [k |-> "inf", s |-> s]
FZero(s) == [k |-> "zero", s |-> s]
FFin(s, m, e) == [k |-> "fin", s |-> s, m |-> m, e |-> e]

\* Round p * 2^e to 53 bits, where g is the first bit cut off p and st
\* tells whether a later one was set
FRound(s, p, e, g, st) ==
    LET up == g = 1 /\ (st = 1 \/ BigOdd(p))
        q == IF up THEN BigInc(p) ELSE p
    IN  IF BigGeq(q, Two53) THEN FFin(s, BigShr1(q), e + 1)
        ELSE FFin(s, q, e)

\* Shift p right until it is below 2^53, keeping the bits cut off
RECURSIVE FShrink(_, _, _, _, _)
FShrink(s, p, e, g, st) ==
    IF BigGeq(p, Two53)
    THEN FShrink(s, BigShr1(p), e + 1, p[1] % 2,
                 IF g = 1 \/ st = 1 THEN 1 ELSE 0)
    ELSE FRound(s, p, e, g, st)

\* Shift p left until it is at least 2^52 (p # 0)
RECURSIVE FGrow(_, _, _)
FGrow(s, p, e) ==
    IF BigGeq(p, Two52) THEN FFin(s, p, e)
    ELSE FGrow(s, BigDbl(p), e - 1)

\* An integer literal or integer-valued number, |n| < 2^30
FromInt(n) ==
    IF n = 0 THEN FZero(1)
    ELSE FGrow(IF n < 0 THEN -1 ELSE 1, BigFromInt(Abs(n)), 0)

\* x + y
BigAdd(x, y) ==
    LET t1 == x[1] + y[1]
        t2 == x[2] + y[2] + t1 \div LimbBase
        t3 == x[3] + y[3] + t2 \div LimbBase
        t4 == x[4] + y[4] + t3 \div LimbBase
        t5 == x[5] + y[5] + t4 \div LimbBase
    IN  <<t1 % LimbBase, t2 % LimbBase, t3 % LimbBase, t4 % LimbBase,
          t5 % LimbBase>>

\* x * 2^b, for 0 <= b < 30
BigShl(x, b) ==
    LET pow2 == <<1, 2, 4, 8, 16, 32, 64, 128, 256, 512, 1024, 2048, 4096,
                  8192, 16384>>
        y == IF b < 15 THEN x ELSE <<0, x[1], x[2], x[3], x[4]>>
    IN  BigMulSmall(y, pow2[(b % 15) + 1])

\* n >= 1 steps of binary long division of r0 by d (r0 < d): the quotient
\* bits q = floor(r0 * 2^n / d) and the remainder r = r0 * 2^n - q * d.
\* The steps are split in halves, which keeps the evaluation shallow.
RECURSIVE LongDiv(_, _, _)
LongDiv(r0, d, n) ==
    IF n = 1
    THEN LET r2 == BigDbl(r0)
             bit == BigGeq(r2, d)
         IN  [q |-> BigFromInt(IF bit THEN 1 ELSE 0),
              r |-> IF bit THEN BigSub(r2, d) ELSE r2]
    ELSE LET h == n \div 2
             hi == LongDiv(r0, d, h)
             lo == LongDiv(hi.r, d, n - h)
         IN  [q |-> BigAdd(BigShl(hi.q, n - h), lo.q), r |-> lo.r]

\* a / b
FDiv(a, b) ==
    IF a.k = "nan" \/ b.k = "nan" THEN FNaN
    ELSE IF a.k = "inf" THEN (IF b.k = "inf" THEN FNaN ELSE FInf(a.s * b.s))
    ELSE IF b.k = "inf" THEN FZero(a.s * b.s)
    ELSE IF b.k = "zero" THEN (IF a.k = "zero" THEN FNaN ELSE FInf(a.s * b.s))
    ELSE IF a.k = "zero" THEN FZero(a.s * b.s)
    ELSE
      LET s == a.s * b.s
          ge == BigGeq(a.m, b.m)
          \* 54 quotient bits: 53 kept and the guard bit
          n == IF ge THEN 53 ELSE 54
          \* the leading quotient bit, then n more
          first == IF ge THEN [q |-> BigFromInt(1), r |-> BigSub(a.m, b.m)]
                   ELSE [q |-> BigZero, r |-> a.m]
          rest == LongDiv(first.r, b.m, n)
          \* first.q * 2^n + rest.q has 54 bits; its low bit is the guard
          guard == rest.q[1] % 2
          kept == BigShr1(rest.q)
          top == IF ge THEN <<kept[1], kept[2], kept[3], kept[4] + 128, kept[5]>>
                 ELSE kept
      IN  FRound(s, top, a.e - b.e - n + 1, guard,
                 IF BigIsZero(rest.r) THEN 0 ELSE 1)

\* a * k for an integer constant k, 0 < |k| < 2^15
FMulInt(a, k) ==
    IF a.k = "nan" THEN FNaN
    ELSE IF a.k = "inf" THEN FInf(a.s * (IF k < 0 THEN -1 ELSE 1))
    ELSE IF a.k = "zero" THEN FZero(a.s * (IF k < 0 THEN -1 ELSE 1))
    ELSE FShrink(a.s * (IF k < 0 THEN -1 ELSE 1),
                 BigMulSmall(a.m, Abs(k)), a.e, 0, 0)

\* a < b (false when either is NaN)
FLess(a, b) ==
    IF a.k = "nan" \/ b.k = "nan" THEN FALSE
    ELSE
      LET sign(x) == IF x.k = "zero" THEN 0 ELSE x.s
          \* magnitude order of two numbers of the same non-zero sign
          magLess(x, y) ==
              IF x.k = "inf" THEN FALSE
              ELSE IF y.k = "inf" THEN TRUE
              ELSE IF x.e # y.e THEN x.e < y.e
              ELSE ~BigGeq(x.m, y.m)
      IN  IF sign(a) # sign(b) THEN sign(a) < sign(b)
          ELSE IF sign(a) = 0 THEN FALSE
          ELSE IF sign(a) = 1 THEN magLess(a, b)
          ELSE magLess(b, a)

FLeq(a, b) ==
    IF a.k = "nan" \/ b.k = "nan" THEN FALSE ELSE ~FLess(b, a)

\* Math.max / Math.min: NaN if either argument is NaN
FMax(a, b) ==
    IF a.k = "nan" \/ b.k = "nan" THEN FNaN
    ELSE IF FLess(a, b) THEN b ELSE a
FMin(a, b) ==
    IF a.k = "nan" \/ b.k = "nan" THEN FNaN
    ELSE IF FLess(b, a) THEN b ELSE a

\* Number.isFinite
FIsFinite(a) == a.k = "fin" \/ a.k = "zero"

---------------------------------------------------------------------------
(* utils/safety.ts *)

MIN_SAFE_FREQUENCY_HZ == 15
MAX_SAFE_FREQUENCY_HZ == 25
\* CHAR_WIDTH and BASE_SCROLL_SPEED of calculateSafeSpeedMultiplier
SAFETY_CHAR_WIDTH == 20
BASE_SCROLL_SPEED == 200

calculateFrequencyFromDuration(durationMs) ==
    IF FLeq(durationMs, FromInt(0)) THEN FromInt(0)
    ELSE FDiv(FromInt(1000), durationMs)

clampFrequency(frequencyHz) ==
    FMax(FromInt(MIN_SAFE_FREQUENCY_HZ),
         FMin(FromInt(MAX_SAFE_FREQUENCY_HZ), frequencyHz))

isFrequencySafe(frequencyHz) ==
    /\ FLeq(FromInt(MIN_SAFE_FREQUENCY_HZ), frequencyHz)
    /\ FLeq(frequencyHz, FromInt(MAX_SAFE_FREQUENCY_HZ))

calculateSafeAnimationDuration(distancePixels, speedPixelsPerSecond) ==
    IF FLeq(distancePixels, FromInt(0)) \/ FLeq(speedPixelsPerSecond, FromInt(0))
    THEN FromInt(1000)
    ELSE
      LET rawDurationMs == FMulInt(FDiv(distancePixels, speedPixelsPerSecond),
                                   1000)
          frequency == calculateFrequencyFromDuration(rawDurationMs)
          safeFrequency == clampFrequency(frequency)
      IN  FDiv(FromInt(1000), safeFrequency)

\* The frequency of a sweep over totalDistance pixels at speed multiplier
\* baseSpeed (safety.ts 96-100)
frequencyAtSpeed(baseSpeed, totalDistance) ==
    LET targetSpeed == FMulInt(baseSpeed, BASE_SCROLL_SPEED)
        durationMs == FMulInt(FDiv(FromInt(totalDistance), targetSpeed), 1000)
    IN  calculateFrequencyFromDuration(durationMs)

\* The multiplier that gives the frequency safeFrequency (safety.ts 108-112)
speedForFrequency(safeFrequency, totalDistance) ==
    LET safeDurationMs == FDiv(FromInt(1000), safeFrequency)
        safeSpeed == FMulInt(FDiv(FromInt(totalDistance), safeDurationMs),
                             1000)
    IN  FDiv(safeSpeed, FromInt(BASE_SCROLL_SPEED))

\* textLength and screenWidth are whole numbers, so that textWidth and
\* totalDistance are computed exactly
calculateSafeSpeedMultiplier(baseSpeed, textLength, screenWidth) ==
    LET textWidth == textLength * SAFETY_CHAR_WIDTH
        totalDistance == screenWidth + textWidth
        frequency == frequencyAtSpeed(baseSpeed, totalDistance)
    IN  IF isFrequencySafe(frequency) THEN baseSpeed
        ELSE speedForFrequency(clampFrequency(frequency), totalDistance)

---------------------------------------------------------------------------
(* useIMUMotion, as DisplayScreen mounts it                                *)
(*                                                                         *)
(* A state update, the re-render it causes and the effects that re-render  *)
(* runs are one step with the handler that made the update.                *)

CHAR_WIDTH == 20
MIN_AUTO_SCROLL_DURATION_MS == 200
MAX_SCROLL_AMOUNT == 1000
BASE_SCROLL_MULTIPLIER == 15
AUTO_SCROLL_SPEED == 200
\* APP_CONFIG.AUTO_OFF_TIMEOUT, the delay of DisplayScreen's auto-off timer
AUTO_OFF_TIMEOUT == 180000

\* The callbacks the hook registers.  handleCalibrationStateUpdate and
\* handleStateUpdate are created once per mounted instance (useCallback with
\* no dependencies); handleMotionData is created anew whenever displayMode,
\* textWidth or screenWidth change and closes over their values.
CalibrationCallback(s) == [kind |-> "calibration", sess |-> s]
StateCallback(s) == [kind |-> "state", sess |-> s]
MotionCallback(h) ==
    [kind |-> "motion", sess |-> h.sess, displayMode |-> h.displayMode,
     textWidth |-> h.textWidth, screenWidth |-> h.screenWidth]

\* No DisplayScreen is mounted
Unmounted == [sess |-> 0]

NoAnimation == [kind |-> "none"]

\* The hook instance of display session s after its first render: the
\* useState / useSharedValue / useRef initial values.  translateX.value is
\* the offset at rest, translateX.animation the animation driving it, and
\* written lists the offset writes of the last step.
HookInit(s, textLength, screenWidth) ==
    [sess |-> s,
     phase |-> "countdown",
     screenWidth |-> screenWidth,
     textWidth |-> textLength * CHAR_WIDTH,
     displayMode |-> "imu",
     isCalibrated |-> FALSE,
     isCalibrating |-> FALSE,
     calibrationProgress |-> RInt(0),
     tempoIndicator |-> "too-slow",
     direction |-> "stationary",
     isIMUAvailable |-> TRUE,
     permissionDenied |-> FALSE,
     metronomeEnabled |-> TRUE,
     translateX |-> [value |-> screenWidth, animation |-> NoAnimation],
     autoScrollActive |-> FALSE,
     autoScrollInterval |-> NoTimer,
     effect1Cleanup |-> FALSE,
     effect2Cleanup |-> "none",
     written |-> <<>>,
     brightnessAccepted |-> FALSE,
     autoOff |-> NoTimer]

\* What outlives the instance of session s: the pending initialize(), the
\* refs its callbacks close over, counts of what the session called, and the
\* fallback interval left pending when the instance unmounted.
\* hapticRecent tells whether lastHapticTimeRef is at most
\* HAPTIC_THROTTLE_INTERVAL old.  stopping counts the handleStop calls of
\* the session that wait for restoreBrightness().
SessionInit ==
    [init |-> "none",
     lastTempo |-> "too-slow",
     hapticRecent |-> FALSE,
     fallbackActivated |-> 0,
     startCalibrationCalls |-> 0,
     tornDown |-> FALSE,
     autoScrollInterval |-> NoTimer,
     stopping |-> 0]

handleCalibrationStateUpdate(w, s, state) ==
    LET w1 == IF w.hk.sess = s
              THEN [w EXCEPT !.hk.isCalibrating = state.isCalibrating,
                             !.hk.isCalibrated = state.isCalibrated,
                             !.hk.calibrationProgress = state.progress,
                             !.hk.tempoIndicator = state.tempoIndicator,
                             !.hk.metronomeEnabled = state.metronomeEnabled]
              ELSE w
        ref == w1.sessions[s]
    IN  IF /\ state.tempoIndicator # ref.lastTempo
           /\ state.isCalibrated
           /\ ~ref.hapticRecent
        THEN [w1 EXCEPT !.cs = playTempoHaptic(@, state.tempoIndicator),
                        !.sessions[s].lastTempo = state.tempoIndicator,
                        !.sessions[s].hapticRecent = TRUE]
        ELSE w1

\* listeners.forEach((listener) => listener(state)) of notifyListeners
RECURSIVE DeliverTo(_, _, _)
DeliverTo(w, listeners, state) ==
    IF listeners = <<>> THEN w
    ELSE DeliverTo(
           IF Head(listeners).kind = "calibration"
           THEN handleCalibrationStateUpdate(w, Head(listeners).sess, state)
           ELSE w,
           Tail(listeners), state)

\* The broadcasts of one CalibrationService call reach the listeners
RECURSIVE DeliverCal(_)
DeliverCal(w) ==
    IF w.cs.outbox = <<>> THEN w
    ELSE DeliverCal(DeliverTo([w EXCEPT !.cs.outbox = Tail(@)],
                              w.cs.listeners, Head(w.cs.outbox)))

\* A call of a CalibrationService method from the world w: c is the
\* controller the method returns
CalibrationCall(w, c) == DeliverCal([w EXCEPT !.cs = c])

handleStateUpdate(w, s, state) ==
    LET w1 == IF w.hk.sess = s
              THEN [w EXCEPT !.hk.direction = state.direction]
              ELSE w
    IN  IF w1.cs.state.isCalibrating
        THEN CalibrationCall(w1, addVelocitySample(w1.cs, state.velocity,
                                                   state.direction))
        ELSE IF w1.cs.state.isCalibrated
        THEN CalibrationCall(w1, updateTempoIndicator(w1.cs, state.velocity))
        ELSE w1

\* stateListeners.forEach((listener) => listener(state))
RECURSIVE DeliverState(_, _, _)
DeliverState(w, listeners, state) ==
    IF listeners = <<>> THEN w
    ELSE
      LET cb == Head(listeners)
          w1 == [w EXCEPT !.ms.delivered = Append(@, cb)]
      IN  DeliverState(
            IF cb.kind = "state" THEN handleStateUpdate(w1, cb.sess, state)
            ELSE w1,
            Tail(listeners), state)

notifyStateListeners(w) ==
    DeliverState(w, w.ms.stateListeners, getState(w.ms))

handleMotionData(w, cb) ==
    IF cb.displayMode # "imu" \/ cb.sess # w.hk.sess THEN w
    ELSE
      LET velocity == w.ms.currentVelocity
          motionDirection == w.ms.currentDirection
      IN  IF motionDirection = "stationary" THEN w
          ELSE
            LET rawScrollAmount == RMul(velocity, RInt(BASE_SCROLL_MULTIPLIER))
                scrollAmount == RMax(RInt(-MAX_SCROLL_AMOUNT),
                                     RMin(RInt(MAX_SCROLL_AMOUNT),
                                          rawScrollAmount))
                directionMultiplier ==
                    IF motionDirection = "right" THEN -1 ELSE 1
                newX == NumAdd(w.hk.translateX.value,
                              RMul(scrollAmount, RInt(directionMultiplier)))
                minX == RInt(-cb.textWidth)
                maxX == cb.screenWidth
                clampedX == NumMax(minX, NumMin(maxX, newX))
            IN  IF \/ ~isFiniteNumber(clampedX) \/ ~isFiniteNumber(minX)
                   \/ ~isFiniteNumber(maxX) \/ ~isFiniteNumber(newX)
                THEN w
                ELSE
                  [w EXCEPT
                     !.hk.translateX.animation =
                         [kind |-> "spring", target |-> clampedX],
                     !.hk.written =
                         Append(@, [by |-> "imu", target |-> clampedX])]

\* listeners.forEach((listener) => listener(data))
RECURSIVE DeliverMotion(_, _)
DeliverMotion(w, listeners) ==
    IF listeners = <<>> THEN w
    ELSE
      LET cb == Head(listeners)
          w1 == [w EXCEPT !.ms.delivered = Append(@, cb)]
      IN  DeliverMotion(
            IF cb.kind = "motion" THEN handleMotionData(w1, cb) ELSE w1,
            Tail(listeners))

\* The DeviceMotion listener of startMonitoring (MotionService.ts 105-159)
sensorCallback(w, rotationX, accelerationX, timestamp) ==
    LET r == processReading(w.ms, rotationX, accelerationX, timestamp)
        w1 == [w EXCEPT !.ms = r.m]
        w2 == IF r.calibrates THEN notifyStateListeners(w1) ELSE w1
        w3 == DeliverMotion(w2, w2.ms.listeners)
    IN  notifyStateListeners(w3)

\* autoScrollDuration without the minimum
autoScrollDuration_NoMinimum(screenWidth, textWidth) ==
    LET distance == screenWidth + textWidth
    IN  FMulInt(FDiv(FromInt(distance), FromInt(AUTO_SCROLL_SPEED)), 1000)

\* The duration of one fallback sweep (useIMUMotion.ts 267-270)
autoScrollDuration(screenWidth, textWidth) ==
    LET distance == screenWidth + textWidth
        rawDuration == FMulInt(FDiv(FromInt(distance),
                                    FromInt(AUTO_SCROLL_SPEED)), 1000)
    IN  FMax(FromInt(MIN_AUTO_SCROLL_DURATION_MS), rawDuration)

\* translateX.value = start; translateX.value = withTiming(end, {duration})
startSweep(w, start, end, duration) ==
    [w EXCEPT !.hk.translateX =
                  [value |-> RInt(start),
                   animation |-> [kind |-> "timing", target |-> RInt(end),
                                  duration |-> duration]],
              !.hk.written = Append(@, [by |-> "auto", target |-> RInt(end),
                                        duration |-> duration])]

\* Effect 1 (useIMUMotion.ts 134-164): initIMU() runs up to its await
effect1(w) ==
    IF w.hk.phase # "displaying" THEN [w EXCEPT !.hk.effect1Cleanup = FALSE]
    ELSE [w EXCEPT !.sessions[w.hk.sess].init = "checking",
                   !.hk.effect1Cleanup = TRUE]

\* The cleanup of effect 1 (useIMUMotion.ts 165-169)
cleanup1(w) ==
    LET s == w.hk.sess
        w1 == [w EXCEPT !.ms = stopMonitoring(@),
                        !.cs = removeListener(@, CalibrationCallback(s)),
                        !.hk.effect1Cleanup = FALSE,
                        !.sessions[s].tornDown = TRUE]
    IN  CalibrationCall(w1, reset(w1.cs))

\* Effect 2 (useIMUMotion.ts 230-334)
effect2(w) ==
    LET h == w.hk
        w1 == [w EXCEPT !.hk.autoScrollInterval = NoTimer]
    IN  IF h.phase # "displaying"
        THEN [w1 EXCEPT !.ms = stopMonitoring(@),
                        !.hk.translateX.animation = NoAnimation,
                        !.hk.autoScrollActive = FALSE,
                        !.hk.effect2Cleanup = "none"]
        ELSE IF h.displayMode = "imu"
        THEN [w1 EXCEPT !.ms = startMonitoring(
                                   addStateListener(@, StateCallback(h.sess)),
                                   MotionCallback(h)),
                        !.hk.effect2Cleanup = "generic"]
        ELSE IF h.displayMode = "auto-scroll" /\ ~h.autoScrollActive
        THEN
          IF \/ ~isFiniteNumber(h.screenWidth)
             \/ NumNotPositive(h.screenWidth) \/ h.textWidth <= 0
          THEN [w1 EXCEPT !.hk.effect2Cleanup = "none"]
          ELSE
            LET safeScreenWidth == IntOf(h.screenWidth)
                duration == autoScrollDuration(safeScreenWidth, h.textWidth)
                w2 == startSweep(w1, safeScreenWidth, -h.textWidth, duration)
            IN  [w2 EXCEPT !.hk.autoScrollActive = TRUE,
                           !.hk.autoScrollInterval =
                               [pending |-> TRUE, delay |-> duration,
                                screenWidth |-> safeScreenWidth,
                                textWidth |-> h.textWidth],
                           !.hk.effect2Cleanup = "auto"]
        ELSE [w1 EXCEPT !.hk.effect2Cleanup = "generic"]

\* cleanup2 whose auto-scroll cleanup leaves autoScrollActive set
cleanup2_KeepsActive(w) ==
    IF w.hk.effect2Cleanup = "auto"
    THEN [w EXCEPT !.hk.autoScrollInterval = NoTimer,
                   !.hk.effect2Cleanup = "none"]
    ELSE IF w.hk.effect2Cleanup = "generic"
    THEN [w EXCEPT !.ms = removeStateListener(@, StateCallback(w.hk.sess)),
                   !.hk.autoScrollInterval = NoTimer,
                   !.hk.effect2Cleanup = "none"]
    ELSE w

\* The cleanup effect 2 returned: none (237-242, 253-261), the auto-scroll
\* one (318-324) or the one at the bottom (327-333)
cleanup2(w) ==
    IF w.hk.effect2Cleanup = "auto"
    THEN [w EXCEPT !.hk.autoScrollInterval = NoTimer,
                   !.hk.autoScrollActive = FALSE,
                   !.hk.effect2Cleanup = "none"]
    ELSE IF w.hk.effect2Cleanup = "generic"
    THEN [w EXCEPT !.ms = removeStateListener(@, StateCallback(w.hk.sess)),
                   !.hk.autoScrollInterval = NoTimer,
                   !.hk.effect2Cleanup = "none"]
    ELSE w

\* The setInterval callback of effect 2 (291-316)
autoScrollIntervalCallback(w) ==
    LET t == w.hk.autoScrollInterval
    IN  IF t.screenWidth <= 0 \/ t.textWidth <= 0
        THEN [w EXCEPT !.hk.autoScrollInterval = NoTimer,
                       !.hk.autoScrollActive = FALSE]
        ELSE startSweep(w, t.screenWidth, -t.textWidth, t.delay)

\* The auto-off effect of DisplayScreen (DisplayScreen.tsx 114-122); its
\* dependencies are phase and handleStop, and handleStop is the same
\* function for the life of the screen (brightnessAccepted and onStop do
\* not change while it is mounted)
autoOffEffect(w) ==
    [w EXCEPT !.hk.autoOff = IF w.hk.phase = "displaying"
                             THEN Timer(AUTO_OFF_TIMEOUT) ELSE NoTimer]

\* An effect or a cleanup runs if its dependencies changed
RunIf(changed, Op(_), w) == IF changed THEN Op(w) ELSE w

\* The re-render after the hook's state or props changed from old: the
\* cleanups of the effects whose dependencies changed, then those effects
Render(w, old) ==
    LET deps1 == old.phase # w.hk.phase
        deps2 == \/ deps1
                 \/ old.displayMode # w.hk.displayMode
                 \/ old.screenWidth # w.hk.screenWidth
                 \/ old.textWidth # w.hk.textWidth
        a == IF deps1 /\ w.hk.effect1Cleanup THEN cleanup1(w) ELSE w
        b == IF deps2 THEN cleanup2(a) ELSE a
        c == IF deps1 THEN effect1(b) ELSE b
    IN  RunIf(deps1, autoOffEffect, IF deps2 THEN effect2(c) ELSE c)

\* initIMU() after its await with the return of the permission-denied branch
\* left out, so that it goes on to start the calibration
initIMU_FallsThrough(w, s, available, permitted) ==
    IF ~available
    THEN [w EXCEPT !.hk = IF @.sess = s
                          THEN [@ EXCEPT !.isIMUAvailable = FALSE,
                                         !.displayMode = "auto-scroll"]
                          ELSE @,
                   !.sessions[s].fallbackActivated = @ + 1]
    ELSE
      LET w0 == IF ~permitted
                THEN [w EXCEPT !.hk = IF @.sess = s
                                      THEN [@ EXCEPT
                                              !.permissionDenied = TRUE,
                                              !.displayMode = "auto-scroll"]
                                      ELSE @,
                               !.sessions[s].fallbackActivated = @ + 1]
                ELSE w
          w1 == [w0 EXCEPT !.cs = addListener(@, CalibrationCallback(s)),
                           !.sessions[s].startCalibrationCalls = @ + 1]
      IN  CalibrationCall(w1, startCalibration(w1.cs))

\* initIMU() after its await (useIMUMotion.ts 138-160), in session s
initIMU(w, s, available, permitted) ==
    IF ~available
    THEN [w EXCEPT !.hk = IF @.sess = s
                          THEN [@ EXCEPT !.isIMUAvailable = FALSE,
                                         !.displayMode = "auto-scroll"]
                          ELSE @,
                   !.sessions[s].fallbackActivated = @ + 1]
    ELSE IF ~permitted
    THEN [w EXCEPT !.hk = IF @.sess = s
                          THEN [@ EXCEPT !.permissionDenied = TRUE,
                                         !.displayMode = "auto-scroll"]
                          ELSE @,
                   !.sessions[s].fallbackActivated = @ + 1]
    ELSE
      LET w1 == [w EXCEPT !.hk = IF @.sess = s
                                 THEN [@ EXCEPT !.isIMUAvailable = TRUE,
                                                !.displayMode = "imu"]
                                 ELSE @,
                          !.cs = addListener(@, CalibrationCallback(s)),
                          !.sessions[s].startCalibrationCalls = @ + 1]
      IN  CalibrationCall(w1, startCalibration(w1.cs))

\* translateX.value = isFiniteNumber(screenWidth) ? screenWidth : 0
resetOffset(w) ==
    LET x == IF isFiniteNumber(w.hk.screenWidth)
             THEN w.hk.screenWidth ELSE RInt(0)
    IN  [w EXCEPT !.hk.translateX = [value |-> x, animation |-> NoAnimation],
                  !.hk.written = Append(@, [by |-> "recalibrate",
                                            target |-> x])]

\* recalibrate of the hook (useIMUMotion.ts 337-342)
recalibrate(w) ==
    LET w1 == notifyStateListeners(
                [w EXCEPT !.ms = MotionService_recalibrate(@)])
        w2 == CalibrationCall(w1, CalibrationService_recalibrate(w1.cs))
    IN  resetOffset(w2)

---------------------------------------------------------------------------
(* The display session: DisplayScreen, the hook, the two services          *)

TextLengths == {1, 10}
ScreenWidths == {RInt(400), RInt(800)}
\* gamma of the rotation rate; the acceleration is left at 0
Rotations == {-1, 0, 1, 100}
\* Milliseconds between two sensor readings
DeltaTimes == {16, 100}
\* Date.now() when the run starts
StartTime == 1000
\* The text, the width at mount and the readings of the sessions in which
\* the auto-off timer is followed
AutoOffTextLengths == {10}
AutoOffWidths == {RInt(400)}
AutoOffRotations == {1}
AutoOffDeltaTimes == {16}

\* The world a handler runs in, with the records of the last step cleared
World ==
    [cs |-> Enter(cs),
     ms |-> MotionEnter(ms),
     hk |-> IF hk.sess = 0 THEN hk ELSE [hk EXCEPT !.written = <<>>],
     sessions |-> sessions]

\* The step leaves the world w and the device e
BecomesWith(w, e) ==
    /\ cs' = w.cs
    /\ ms' = w.ms
    /\ hk' = w.hk
    /\ sessions' = w.sessions
    /\ env' = e

\* The step leaves the world w, having been the call or event call
Becomes(w, call) == BecomesWith(w, [env EXCEPT !.call = call])

\* The device: whether it has the sensor and whether the user grants the
\* permission, the clock, the counts the bounds limit, and whether the
\* fallback interval has fired an odd number of times
Init ==
    /\ cs = CalibrationServiceInit
    /\ ms = MotionServiceInit
    /\ hk = Unmounted
    /\ sessions = <<>>
    /\ \E available \in BOOLEAN, granted \in BOOLEAN :
         env = [available |-> available, granted |-> granted,
                now |-> StartTime, readings |-> 0, dimensionChanges |-> 0,
                oddFirings |-> FALSE, call |-> [op |-> "none"]]
    /\ sf = [called |-> FALSE]

\* App shows DisplayScreen (part_012 20-23, 36-40): first render of the
\* screen and the hook, and their effects
MountWith(brightnessAccepted, textLengths, screenWidths) ==
    /\ hk.sess = 0
    /\ Len(sessions) < MaxSessions
    /\ \E textLength \in textLengths, screenWidth \in screenWidths :
         LET s == Len(sessions) + 1
             h == [HookInit(s, textLength, screenWidth)
                       EXCEPT !.brightnessAccepted = brightnessAccepted]
             w == [World EXCEPT !.hk = h,
                                !.sessions = Append(@, SessionInit)]
         IN  Becomes(autoOffEffect(effect2(effect1(w))),
                     [op |-> "mount", sess |-> s])
    /\ UNCHANGED sf

\* The display starts with the brightness prompt declined
Mount == MountWith(FALSE, TextLengths, ScreenWidths)

\* The display starts with the brightness prompt accepted
MountBrightnessAccepted == MountWith(TRUE, AutoOffTextLengths, AutoOffWidths)

\* The same with the brightness prompt declined
MountBrightnessDeclined == MountWith(FALSE, AutoOffTextLengths, AutoOffWidths)

\* Countdown calls onComplete: phase becomes 'displaying'
CountdownComplete ==
    /\ hk.sess # 0
    /\ hk.phase = "countdown"
    /\ Becomes(Render([World EXCEPT !.hk.phase = "displaying"], hk),
               [op |-> "countdownComplete", sess |-> hk.sess])
    /\ UNCHANGED sf

\* checkAvailability() of the initialize() of session s resolves; if the
\* sensor is missing initialize() returns and initIMU continues
CheckAvailabilityResolves(s) ==
    /\ sessions[s].init = "checking"
    /\ LET w == [World EXCEPT !.ms.isAvailable = env.available,
                              !.sessions[s].init =
                                  IF env.available THEN "requesting"
                                  ELSE "done"]
           w1 == IF env.available THEN w ELSE initIMU(w, s, FALSE, FALSE)
       IN  Becomes(IF hk.sess = s THEN Render(w1, hk) ELSE w1,
                   [op |-> "checkAvailability", sess |-> s])
    /\ UNCHANGED sf

\* requestPermission() of the initialize() of session s resolves and
\* initIMU continues
RequestPermissionResolves(s) ==
    /\ sessions[s].init = "requesting"
    /\ LET w == [World EXCEPT !.ms.hasPermission = env.granted,
                              !.sessions[s].init = "done"]
           w1 == initIMU(w, s, TRUE, env.granted)
       IN  Becomes(IF hk.sess = s THEN Render(w1, hk) ELSE w1,
                   [op |-> "requestPermission", sess |-> s])
    /\ UNCHANGED sf

\* onStop, which is App's handleNavigateToEditor (part_012 25-27): App
\* shows the editor, so the DisplayScreen that is mounted, if any, unmounts
\* and the cleanups of its effects run
onStop(w) ==
    IF w.hk.sess = 0 THEN w
    ELSE
      LET a == IF w.hk.effect1Cleanup THEN cleanup1(w) ELSE w
          b == cleanup2(a)
      IN  [b EXCEPT !.hk = Unmounted,
                    !.sessions[w.hk.sess].autoScrollInterval =
                        b.hk.autoScrollInterval]

\* handleStop with nothing after its await
handleStop_DropsAfterAwait(w) ==
    IF w.hk.brightnessAccepted THEN w ELSE onStop(w)

\* handleStop (DisplayScreen.tsx 101-107) up to its await: with the
\* brightness accepted it waits for restoreBrightness(), otherwise it calls
\* onStop at once
handleStop(w) ==
    IF w.hk.brightnessAccepted
    THEN [w EXCEPT !.sessions[w.hk.sess].stopping = @ + 1]
    ELSE onStop(w)

\* The Stop button
Stop ==
    /\ hk.sess # 0
    /\ hk.phase = "displaying"
    /\ sessions[hk.sess].stopping < MaxPendingStops
    /\ Becomes(handleStop(World), [op |-> "stop", sess |-> hk.sess])
    /\ UNCHANGED sf

\* AUTO_OFF_TIMEOUT after the display phase began the auto-off timer fires
AutoOffFires ==
    /\ hk.sess # 0
    /\ hk.autoOff.pending
    /\ Becomes(handleStop([World EXCEPT !.hk.autoOff = NoTimer]),
               [op |-> "autoOff", sess |-> hk.sess])
    /\ UNCHANGED sf

\* restoreBrightness() settles for a handleStop of session s (it catches
\* its errors, BrightnessService.ts 57-74) and handleStop calls onStop
RestoreBrightnessResolves(s) ==
    /\ s <= Len(sessions)
    /\ sessions[s].stopping > 0
    /\ Becomes(onStop([World EXCEPT !.sessions[s].stopping = @ - 1]),
               [op |-> "restoreBrightness", sess |-> s])
    /\ UNCHANGED sf

\* The window width changes: DisplayScreen's Dimensions listener
DimensionChangeUpTo(maxChanges, screenWidths) ==
    /\ hk.sess # 0
    /\ env.dimensionChanges < maxChanges
    /\ \E width \in screenWidths \ {hk.screenWidth} :
         BecomesWith(Render([World EXCEPT !.hk.screenWidth = width], hk),
                     [env EXCEPT !.dimensionChanges = @ + 1,
                                 !.call = [op |-> "dimensionChange",
                                           width |-> width]])
    /\ UNCHANGED sf

DimensionChangeTo(screenWidths) ==
    DimensionChangeUpTo(MaxDimensionChanges, screenWidths)

\* The device delivers a reading to the DeviceMotion listener.  The raw
\* device-motion stream needs the sensor, not the permission the user is
\* asked for.
SensorReadingUpTo(maxReadings, rotations, deltaTimes) ==
    /\ ms.deviceListeners > 0
    /\ env.available
    /\ env.readings < maxReadings
    /\ \E rotationX \in rotations, dt \in deltaTimes :
         BecomesWith(sensorCallback(World, RInt(rotationX), RInt(0),
                                    env.now + dt),
                     [env EXCEPT !.now = @ + dt, !.readings = @ + 1,
                                 !.call = [op |-> "sensorReading",
                                           rotationX |-> rotationX,
                                           dt |-> dt]])
    /\ UNCHANGED sf

SensorReadingFrom(rotations, deltaTimes) ==
    SensorReadingUpTo(MaxReadings, rotations, deltaTimes)

SensorReading == SensorReadingFrom(Rotations, DeltaTimes)

DimensionChange == DimensionChangeTo(ScreenWidths)

\* CALIBRATION_DURATION after startCalibration the timeout fires
CalibrationTimeoutFires ==
    /\ cs.calibrationTimeout.pending
    /\ Becomes(CalibrationCall(World, calibrationTimeoutCallback(Enter(cs))),
               [op |-> "calibrationTimeout"])
    /\ UNCHANGED sf

\* The metronome interval fires
MetronomeTick ==
    /\ cs.metronomeInterval.pending
    /\ Becomes([World EXCEPT !.cs = metronomeIntervalCallback(@)],
               [op |-> "metronomeTick"])
    /\ UNCHANGED sf

\* The fallback interval fires
AutoScrollIntervalFires ==
    /\ hk.sess # 0
    /\ hk.autoScrollInterval.pending
    /\ Becomes(autoScrollIntervalCallback(World), [op |-> "autoScrollInterval"])
    /\ UNCHANGED sf

\* The Recalibrate button, shown in IMU mode once calibrated
Recalibrate ==
    /\ hk.sess # 0
    /\ hk.phase = "displaying"
    /\ hk.displayMode = "imu" /\ hk.isCalibrated
    /\ Becomes(recalibrate(World), [op |-> "recalibrate"])
    /\ UNCHANGED sf

\* The running animation reaches its target
AnimationSettles ==
    /\ hk.sess # 0
    /\ hk.translateX.animation.kind # "none"
    /\ Becomes([World EXCEPT !.hk.translateX =
                                 [value |-> hk.translateX.animation.target,
                                  animation |-> NoAnimation]],
               [op |-> "animationSettles"])
    /\ UNCHANGED sf

\* HAPTIC_THROTTLE_INTERVAL passes since the last tempo haptic of session s
ThrottleElapses(s) ==
    /\ sessions[s].hapticRecent
    /\ Becomes([World EXCEPT !.sessions[s].hapticRecent = FALSE],
               [op |-> "throttleElapses", sess |-> s])
    /\ UNCHANGED sf

Next ==
    \/ Mount
    \/ CountdownComplete
    \/ \E s \in 1..Len(sessions) : CheckAvailabilityResolves(s)
    \/ \E s \in 1..Len(sessions) : RequestPermissionResolves(s)
    \/ Stop
    \/ AutoOffFires
    \/ DimensionChange
    \/ SensorReading
    \/ CalibrationTimeoutFires
    \/ MetronomeTick
    \/ AutoScrollIntervalFires
    \/ Recalibrate
    \/ AnimationSettles
    \/ \E s \in 1..Len(sessions) : ThrottleElapses(s)

Spec == Init /\ [][Next]_vars

\* The sessions with the brightness accepted as well, where handleStop
\* waits for the brightness to be restored.
AutoOffNext ==
    \/ MountBrightnessAccepted
    \/ MountBrightnessDeclined
    \/ CountdownComplete
    \/ \E s \in 1..Len(sessions) : CheckAvailabilityResolves(s)
    \/ \E s \in 1..Len(sessions) : RequestPermissionResolves(s)
    \/ Stop
    \/ AutoOffFires
    \/ \E s \in 1..MaxSessions : RestoreBrightnessResolves(s)
    \/ DimensionChange
    \/ SensorReadingFrom(AutoOffRotations, AutoOffDeltaTimes)
    \/ CalibrationTimeoutFires
    \/ MetronomeTick
    \/ AutoScrollIntervalFires
    \/ Recalibrate
    \/ AnimationSettles

\* The sessions under a steady stream of readings, long enough to fill the
\* velocity history of the MotionService
StreamReading ==
    SensorReadingUpTo(MaxStreamReadings, AutoOffRotations, AutoOffDeltaTimes)

StreamNext ==
    \/ MountBrightnessDeclined
    \/ CountdownComplete
    \/ \E s \in 1..Len(sessions) : CheckAvailabilityResolves(s)
    \/ \E s \in 1..Len(sessions) : RequestPermissionResolves(s)
    \/ Stop
    \/ StreamReading
    \/ CalibrationTimeoutFires
    \/ MetronomeTick
    \/ Recalibrate

SpecStream == Init /\ [][StreamNext]_vars

\* The event loop runs a timer that is due: weak fairness of AutoOffFires.
\* AutoOffFires is enabled exactly while the timer is pending and stays so
\* until it is taken or the screen unmounts, and both leave no timer
\* pending, so the condition is that the timer is not pending again and
\* again.
AutoOffTimerRuns == []<>~(hk.sess # 0 /\ hk.autoOff.pending)

\* The promise of restoreBrightness() settles: weak fairness of
\* RestoreBrightnessResolves(s), which is enabled exactly while a handleStop
\* of session s waits and is disabled only by being taken.
RestoreBrightnessSettles ==
    \A s \in 1..MaxSessions :
        []<>~(s <= Len(sessions) /\ sessions[s].stopping > 0)

SpecAutoOff ==
    /\ Init
    /\ [][AutoOffNext]_vars
    /\ AutoOffTimerRuns
    /\ RestoreBrightnessSettles

\* The sessions of a degenerate layout: the window width is 0 or is not a
\* finite number, at mount or after a change, next to a regular width.
LayoutWidths == {RInt(0), NaN, Infinity, RInt(400)}

MountLayout == MountWith(FALSE, AutoOffTextLengths, LayoutWidths)

DimensionChangeLayout == DimensionChangeTo(LayoutWidths)

LayoutNext ==
    \/ MountLayout
    \/ CountdownComplete
    \/ \E s \in 1..Len(sessions) : CheckAvailabilityResolves(s)
    \/ \E s \in 1..Len(sessions) : RequestPermissionResolves(s)
    \/ Stop
    \/ DimensionChangeLayout
    \/ SensorReadingFrom(AutoOffRotations, AutoOffDeltaTimes)
    \/ CalibrationTimeoutFires
    \/ MetronomeTick
    \/ AutoScrollIntervalFires
    \/ Recalibrate
    \/ AnimationSettles

SpecLayout == Init /\ [][LayoutNext]_vars

\* The same sessions with the recalibrate function the hook returns called
\* by its consumer at any time, not only from the button DisplayScreen
\* shows once calibrated
CallRecalibrate_Hook ==
    /\ hk.sess # 0
    /\ Becomes(recalibrate(World), [op |-> "recalibrate"])
    /\ UNCHANGED sf

RecalibrateNext ==
    \/ MountLayout
    \/ CountdownComplete
    \/ \E s \in 1..Len(sessions) : CheckAvailabilityResolves(s)
    \/ \E s \in 1..Len(sessions) : RequestPermissionResolves(s)
    \/ Stop
    \/ SensorReadingFrom(AutoOffRotations, AutoOffDeltaTimes)
    \/ CalibrationTimeoutFires
    \/ AutoScrollIntervalFires
    \/ CallRecalibrate_Hook

SpecRecalibrate == Init /\ [][RecalibrateNext]_vars

\* The sessions in which the fallback sweep is followed: the interval of
\* effect 2 fires again and again, and the window width changes to a width
\* that is not usable and back.  The step of the interval records whether
\* it is an odd or an even firing, so that one firing differs from the
\* next.
FallbackWidths == {RInt(0), NaN, RInt(400)}

MountFallback == MountWith(FALSE, AutoOffTextLengths, FallbackWidths)

DimensionChangeFallback ==
    DimensionChangeUpTo(MaxFallbackDimensionChanges, FallbackWidths)

OddFiring == env.call.op = "autoScrollInterval" /\ env.oddFirings
EvenFiring == env.call.op = "autoScrollInterval" /\ ~env.oddFirings

FallbackIntervalFires ==
    /\ hk.sess # 0
    /\ hk.autoScrollInterval.pending
    /\ BecomesWith(autoScrollIntervalCallback(World),
                   [env EXCEPT !.oddFirings = ~@,
                               !.call = [op |-> "autoScrollInterval"]])
    /\ UNCHANGED sf

FallbackNext ==
    \/ MountFallback
    \/ CountdownComplete
    \/ \E s \in 1..Len(sessions) : CheckAvailabilityResolves(s)
    \/ \E s \in 1..Len(sessions) : RequestPermissionResolves(s)
    \/ Stop
    \/ DimensionChangeFallback
    \/ SensorReadingFrom(AutoOffRotations, AutoOffDeltaTimes)
    \/ FallbackIntervalFires
    \/ AnimationSettles

\* setInterval(callback, duration) (useIMUMotion.ts 288-316): a live
\* interval keeps firing until clearInterval
SpecFallback ==
    /\ Init
    /\ [][FallbackNext]_vars
    /\ WF_vars(FallbackIntervalFires)

---------------------------------------------------------------------------
(* The CalibrationService alone, under any sequence of its public calls    *)
(* and timer callbacks                                                     *)

\* Velocities fed as samples, and velocities given to updateTempoIndicator
SampleVelocities == {RInt(0), RInt(1)}
TempoVelocities == {RInt(1), RInt(5), RInt(9)}
\* A listener that is not the hook's
Probe == [kind |-> "probe", id |-> 1]

CalInit ==
    /\ cs = CalibrationServiceInit
    /\ ms = MotionServiceInit
    /\ hk = Unmounted
    /\ sessions = <<>>
    /\ env = [call |-> [op |-> "none"]]
    /\ sf = [called |-> FALSE]

\* The controller becomes c by the call or timer callback call
CalBecomes(c, call) ==
    /\ cs' = c
    /\ env' = [call |-> call]
    /\ UNCHANGED <<ms, hk, sessions, sf>>

\* The call is recorded with the isCalibrated it found
CallStartCalibration ==
    CalBecomes(startCalibration(Enter(cs)),
               [op |-> "startCalibration",
                calibrated |-> cs.state.isCalibrated])

CallAddVelocitySample ==
    /\ Len(cs.velocitySamples) < MaxSamples
    /\ \E velocity \in SampleVelocities, direction \in Directions :
         CalBecomes(addVelocitySample(Enter(cs), velocity, direction),
                    [op |-> "addVelocitySample", velocity |-> velocity,
                     direction |-> direction])

CallStopCalibration ==
    CalBecomes(stopCalibration(Enter(cs)), [op |-> "stopCalibration"])

CallRecalibrate ==
    CalBecomes(CalibrationService_recalibrate(Enter(cs)),
               [op |-> "recalibrate"])

CallReset == CalBecomes(reset(Enter(cs)), [op |-> "reset"])

CallUpdateTempoIndicator ==
    \E velocity \in TempoVelocities :
      CalBecomes(updateTempoIndicator(Enter(cs), velocity),
                 [op |-> "updateTempoIndicator", velocity |-> velocity])

CallSetMetronomeEnabled ==
    \E enabled \in BOOLEAN :
      CalBecomes(setMetronomeEnabled(Enter(cs), enabled),
                 [op |-> "setMetronomeEnabled", enabled |-> enabled])

CallAddListener ==
    CalBecomes(addListener(Enter(cs), Probe), [op |-> "addListener"])

CallRemoveListener ==
    CalBecomes(removeListener(Enter(cs), Probe), [op |-> "removeListener"])

CalTimeoutFires ==
    /\ cs.calibrationTimeout.pending
    /\ CalBecomes(calibrationTimeoutCallback(Enter(cs)),
                  [op |-> "calibrationTimeout"])

CalMetronomeFires ==
    /\ cs.metronomeInterval.pending
    /\ CalBecomes(metronomeIntervalCallback(Enter(cs)),
                  [op |-> "metronomeTick"])

CalNext ==
    \/ CallStartCalibration
    \/ CallAddVelocitySample
    \/ CallStopCalibration
    \/ CallRecalibrate
    \/ CallReset
    \/ CallUpdateTempoIndicator
    \/ CallSetMetronomeEnabled
    \/ CallAddListener
    \/ CallRemoveListener
    \/ CalTimeoutFires
    \/ CalMetronomeFires

SpecCal == CalInit /\ [][CalNext]_vars

---------------------------------------------------------------------------
(* The MotionService alone, under any sequence of its public calls and     *)
(* sensor readings                                                         *)

\* Callbacks that are not the hook's
MotionProbes == {[kind |-> "probe", id |-> 1], [kind |-> "probe", id |-> 2]}
StateProbes == {[kind |-> "probe", id |-> 3]}

\* env.call is the last call or event and env.prev the one before it;
\* env.repeated tells whether startMonitoring was ever called with a callback
\* that was registered already
MotionInit ==
    /\ cs = CalibrationServiceInit
    /\ ms = MotionServiceInit
    /\ hk = Unmounted
    /\ sessions = <<>>
    /\ env = [now |-> StartTime, readings |-> 0, repeated |-> FALSE,
              call |-> [op |-> "none"], prev |-> [op |-> "none"]]
    /\ sf = [called |-> FALSE]

\* The sampler becomes m by the call or event call
MotionBecomes(m, e, call) ==
    /\ ms' = m
    /\ env' = [e EXCEPT !.call = call, !.prev = env.call]
    /\ UNCHANGED <<cs, hk, sessions, sf>>

CallStartMonitoring ==
    \E callback \in MotionProbes :
      MotionBecomes(startMonitoring(MotionEnter(ms), callback),
                    [env EXCEPT !.repeated =
                                    @ \/ Includes(ms.listeners, callback)],
                    [op |-> "startMonitoring", callback |-> callback])

CallStopMonitoring ==
    MotionBecomes(stopMonitoring(MotionEnter(ms)), env,
                  [op |-> "stopMonitoring"])

CallRemoveListener_Motion ==
    \E callback \in MotionProbes :
      MotionBecomes(MotionService_removeListener(MotionEnter(ms), callback),
                    env, [op |-> "removeListener", callback |-> callback])

CallAddStateListener ==
    \E callback \in StateProbes :
      MotionBecomes(addStateListener(MotionEnter(ms), callback), env,
                    [op |-> "addStateListener", callback |-> callback])

CallRemoveStateListener ==
    \E callback \in StateProbes :
      MotionBecomes(removeStateListener(MotionEnter(ms), callback), env,
                    [op |-> "removeStateListener", callback |-> callback])

CallRecalibrate_Motion ==
    MotionBecomes(
        notifyStateListeners(
            [World EXCEPT !.ms = MotionService_recalibrate(@)]).ms,
        env, [op |-> "recalibrate"])

\* Milliseconds from one reading to the next on Date.now(), which may
\* stand still or be set back between two readings
MotionDeltaTimes == {-16, 0, 16, 100}

MotionReading ==
    /\ ms.deviceListeners > 0
    /\ env.readings < MaxMotionReadings
    /\ \E rotationX \in Rotations, dt \in MotionDeltaTimes :
         MotionBecomes(
             sensorCallback(World, RInt(rotationX), RInt(0),
                            env.now + dt).ms,
             [env EXCEPT !.now = @ + dt, !.readings = @ + 1],
             [op |-> "sensorReading", rotationX |-> rotationX, dt |-> dt])

MotionNext ==
    \/ CallStartMonitoring
    \/ CallStopMonitoring
    \/ CallRemoveListener_Motion
    \/ CallAddStateListener
    \/ CallRemoveStateListener
    \/ CallRecalibrate_Motion
    \/ MotionReading

SpecMotion == MotionInit /\ [][MotionNext]_vars

---------------------------------------------------------------------------
(* The MotionService alone under one subscription and a stream of readings *)
(* long enough to fill its velocity history and shift it                   *)

HistoryRotations == {-1, 0}

StartHistory ==
    /\ ~ms.subscription
    /\ \E callback \in {[kind |-> "probe", id |-> 1]} :
         MotionBecomes(startMonitoring(MotionEnter(ms), callback), env,
                       [op |-> "startMonitoring", callback |-> callback])

HistoryReading ==
    /\ ms.deviceListeners > 0
    /\ env.readings < MaxHistoryReadings
    /\ \E rotationX \in HistoryRotations, dt \in AutoOffDeltaTimes :
         MotionBecomes(
             sensorCallback(World, RInt(rotationX), RInt(0),
                            env.now + dt).ms,
             [env EXCEPT !.now = @ + dt, !.readings = @ + 1],
             [op |-> "sensorReading", rotationX |-> rotationX, dt |-> dt])

HistoryNext ==
    \/ StartHistory
    \/ HistoryReading
    \/ CallRecalibrate_Motion

SpecHistory == MotionInit /\ [][HistoryNext]_vars

---------------------------------------------------------------------------
(* The tempo classification of the two services, on the velocities a       *)
(* monitored stream of readings produces                                   *)

\* Rotation rates at and next to the two thresholds
TempoRotations == {Rat(199, 100), RInt(2), RInt(5), RInt(8), Rat(801, 100)}
\* Readings of one run
MaxTempoReadings == 3

TempoStartMonitoring ==
    /\ ms.listeners = <<>>
    /\ MotionBecomes(startMonitoring(MotionEnter(ms), Probe), env,
                     [op |-> "startMonitoring"])

\* A reading 16 ms after the last one
TempoReading ==
    /\ ms.deviceListeners > 0
    /\ env.readings < MaxTempoReadings
    /\ \E rotationX \in TempoRotations :
         MotionBecomes(
             sensorCallback(World, rotationX, RInt(0), env.now + 16).ms,
             [env EXCEPT !.now = @ + 16, !.readings = @ + 1],
             [op |-> "sensorReading", rotationX |-> rotationX])

\* The velocity of the sampler's state reaches the controller, as in the
\* hook's handleStateUpdate (useIMUMotion.ts 173-183)
TempoUpdate ==
    /\ cs' = updateTempoIndicator(Enter(cs), getState(ms).velocity)
    /\ env' = [env EXCEPT !.call = [op |-> "updateTempoIndicator",
                                    velocity |-> getState(ms).velocity],
                          !.prev = env.call]
    /\ UNCHANGED <<ms, hk, sessions, sf>>

TempoNext ==
    \/ TempoStartMonitoring
    \/ TempoReading
    \/ TempoUpdate

SpecTempo == MotionInit /\ [][TempoNext]_vars

---------------------------------------------------------------------------
(* The safety utility, called with any arguments                           *)

\* Arguments of calculateSafeAnimationDuration: distances in pixels and
\* speeds in pixels per second
SafetyDistances == {FromInt(n) : n \in {-5, 0, 1, 7, 10, 420, 600, 1000}}
SafetySpeeds == {FromInt(n) : n \in {-200, 0, 1, 50, 100, 200, 1000, 30000}}

SafetyInit ==
    /\ cs = CalibrationServiceInit
    /\ ms = MotionServiceInit
    /\ hk = Unmounted
    /\ sessions = <<>>
    /\ env = [call |-> [op |-> "none"]]
    /\ \E distance \in SafetyDistances, speed \in SafetySpeeds :
         sf = [called |-> FALSE, distance |-> distance, speed |-> speed]

\* calculateSafeAnimationDuration(distance, speed), and the frequency
\* calculateFrequencyFromDuration gives for the duration it returned
CallSafeAnimationDuration ==
    /\ ~sf.called
    /\ LET duration == calculateSafeAnimationDuration(sf.distance, sf.speed)
       IN  sf' = [sf EXCEPT !.called = TRUE] @@
                 [duration |-> duration,
                  frequency |-> calculateFrequencyFromDuration(duration)]
    /\ env' = [call |-> [op |-> "calculateSafeAnimationDuration"]]
    /\ UNCHANGED <<cs, ms, hk, sessions>>

SafetyNext == CallSafeAnimationDuration

SpecSafety == SafetyInit /\ [][SafetyNext]_vars

\* Arguments of calculateSafeSpeedMultiplier: speed multipliers (0.5 among
\* them), text lengths in characters and screen widths in pixels
SpeedBaseSpeeds ==
    {FromInt(n) : n \in {0, 1, 2, 60, 1000}} \union {FDiv(FromInt(1), FromInt(2))}
SpeedTextLengths == {0, 1, 10}
SpeedScreenWidths == {-1000, 0, 400, 800}

SpeedInit ==
    /\ cs = CalibrationServiceInit
    /\ ms = MotionServiceInit
    /\ hk = Unmounted
    /\ sessions = <<>>
    /\ env = [call |-> [op |-> "none"]]
    /\ \E baseSpeed \in SpeedBaseSpeeds, textLength \in SpeedTextLengths,
          screenWidth \in SpeedScreenWidths :
         sf = [called |-> FALSE, baseSpeed |-> baseSpeed,
               textLength |-> textLength, screenWidth |-> screenWidth]

\* calculateSafeSpeedMultiplier(baseSpeed, textLength, screenWidth), with
\* the frequency of the sweep at baseSpeed and at the multiplier returned
CallSafeSpeedMultiplier ==
    /\ ~sf.called
    /\ \E multiplier \in {calculateSafeSpeedMultiplier(sf.baseSpeed,
                               sf.textLength, sf.screenWidth)} :
         LET totalDistance ==
                 sf.screenWidth + sf.textLength * SAFETY_CHAR_WIDTH
         IN  sf' = [sf EXCEPT !.called = TRUE] @@
                   [multiplier |-> multiplier,
                    frequency |-> frequencyAtSpeed(sf.baseSpeed, totalDistance),
                    resulting |-> frequencyAtSpeed(multiplier, totalDistance)]
    /\ env' = [call |-> [op |-> "calculateSafeSpeedMultiplier"]]
    /\ UNCHANGED <<cs, ms, hk, sessions>>

SpeedNext == CallSafeSpeedMultiplier

SpecSpeed == SpeedInit /\ [][SpeedNext]_vars

---------------------------------------------------------------------------
(* The duration of the fallback sweep, for the dimensions effect 2 accepts *)

\* Window widths in pixels, the small ones giving sweeps under the minimum,
\* and text lengths in characters
SweepScreenWidths == 1..60 \union {181, 360, 393, 400, 800}
SweepTextLengths == {1, 10, 21}

SweepInit ==
    /\ cs = CalibrationServiceInit
    /\ ms = MotionServiceInit
    /\ hk = Unmounted
    /\ sessions = <<>>
    /\ env = [call |-> [op |-> "none"]]
    /\ \E screenWidth \in SweepScreenWidths, textLength \in SweepTextLengths :
         sf = [called |-> FALSE, screenWidth |-> screenWidth,
               textWidth |-> textLength * CHAR_WIDTH]

\* const duration = Math.max(MIN_AUTO_SCROLL_DURATION_MS, rawDuration)
CallAutoScrollDuration ==
    /\ ~sf.called
    /\ \E duration \in {autoScrollDuration(sf.screenWidth, sf.textWidth)} :
         sf' = [sf EXCEPT !.called = TRUE] @@ [duration |-> duration]
    /\ env' = [call |-> [op |-> "autoScrollDuration"]]
    /\ UNCHANGED <<cs, ms, hk, sessions>>

SweepNext == CallAutoScrollDuration

SpecSweep == SweepInit /\ [][SweepNext]_vars

---------------------------------------------------------------------------
(* Properties *)

\* The mean of a sequence of samples, 0 for none
Mean(samples) ==
    IF samples = <<>> THEN RInt(0) ELSE RDivInt(RSum(samples), Len(samples))

\* How often x occurs in the sequence s
Count(s, x) == Cardinality({i \in 1..Len(s) : s[i] = x})

\* C1: once every display session has been torn down (the hook's cleanups
\* have run and nothing is mounted), whatever the order of the teardown and
\* of the resolution of the session's initialize(): no sensor subscription,
\* no fallback interval, no calibration timeout, no metronome interval, no
\* calibration listener, the controller neither calibrating nor calibrated,
\* and no completion haptic fired by the last step.
C1_TeardownReleasesEverything ==
    (hk.sess = 0 /\ sessions # <<>>) =>
        /\ ~ms.subscription
        /\ ms.deviceListeners = 0
        /\ \A s \in 1..Len(sessions) : ~sessions[s].autoScrollInterval.pending
        /\ ~cs.calibrationTimeout.pending
        /\ ~cs.metronomeInterval.pending
        /\ cs.listeners = <<>>
        /\ ~cs.state.isCalibrating
        /\ ~cs.state.isCalibrated
        /\ cs.success = 0

\* C2: while the fallback interval of the mounted session is pending, no
\* motion-data handler of that session that passes its displayMode test (and
\* so writes the offset) is registered with the MotionService.
C2_SingleOffsetWriter ==
    (hk.sess # 0 /\ hk.autoScrollInterval.pending) =>
        ~\E i \in 1..Len(ms.listeners) :
            /\ ms.listeners[i].kind = "motion"
            /\ ms.listeners[i].sess = hk.sess
            /\ ms.listeners[i].displayMode = "imu"

\* C3: in IMU mode every target the motion-data handlers wrote in the last
\* step lies in [-textWidth, screenWidth] of the session, and a reading that
\* leaves the direction 'stationary' makes them write nothing.
C3_ImuTargetsWithinBounds ==
    (hk.sess # 0 /\ hk.displayMode = "imu") =>
        /\ \A i \in 1..Len(hk.written) :
             hk.written[i].by = "imu" =>
                 /\ RLeq(RInt(-hk.textWidth), hk.written[i].target)
                 /\ RLeq(hk.written[i].target, hk.screenWidth)
        /\ (env.call.op = "sensorReading" /\ ms.currentDirection = "stationary")
               => hk.written = <<>>

\* C4: a session whose initialize() reported the sensor missing, or the
\* permission denied, has called onFallbackActivated once and
\* startCalibration never, and while mounted shows 'auto-scroll', with
\* permissionDenied exactly in the denied case; a session whose initialize()
\* reported both has called startCalibration, which leaves the controller
\* calibrating, and never onFallbackActivated, and shows 'imu'; before
\* initialize() resolves the session has called neither.
C4_FallbackOutcomes ==
    \A s \in 1..Len(sessions) :
        LET r == sessions[s]
            resolved == r.init = "done"
            permitted == env.available /\ env.granted
        IN  /\ r.fallbackActivated = IF resolved /\ ~permitted THEN 1 ELSE 0
            /\ r.startCalibrationCalls = IF resolved /\ permitted THEN 1 ELSE 0
            /\ hk.sess = s =>
                 /\ hk.displayMode = IF resolved /\ ~permitted
                                     THEN "auto-scroll" ELSE "imu"
                 /\ hk.permissionDenied =
                        (resolved /\ env.available /\ ~env.granted)
                 /\ hk.isIMUAvailable = ~(resolved /\ ~env.available)
            /\ (env.call = [op |-> "requestPermission", sess |-> s]
                    /\ env.granted) => cs.state.isCalibrating

\* A mounted session fell back because the permission was denied
C4_Witness ==
    /\ hk.sess # 0
    /\ sessions[hk.sess].init = "done"
    /\ env.available /\ ~env.granted
    /\ hk.displayMode = "auto-scroll"
    /\ sessions[hk.sess].fallbackActivated = 1

\* C5: an addVelocitySample call made while calibrating, after which there
\* are at least 10 samples whose mean exceeds 0.5, has completed the
\* calibration when it returns: calibrated, the timeout cleared, the speed
\* the mean of all samples and the direction the sample's, 'right' for
\* 'stationary'.
C5_EarlyCompletion ==
    [][(/\ env'.call.op = "addVelocitySample"
        /\ cs.state.isCalibrating
        /\ Len(cs'.velocitySamples) >= 10
        /\ RLess(Rat(1, 2), Mean(cs'.velocitySamples)))
       => /\ cs'.state.isCalibrated
          /\ ~cs'.state.isCalibrating
          /\ ~cs'.calibrationTimeout.pending
          /\ cs'.state.calibrationData =
                 CalibrationData(
                     Mean(cs'.velocitySamples),
                     IF env'.call.direction = "stationary" THEN "right"
                     ELSE env'.call.direction)]_vars

\* Ten samples of 1.0, the last of them to the left, completed the
\* calibration with speed 1.0
C5_Witness ==
    /\ env.call.op = "addVelocitySample"
    /\ env.call.direction = "left"
    /\ cs.velocitySamples = [i \in 1..10 |-> RInt(1)]
    /\ cs.state.isCalibrated
    /\ cs.state.calibrationData = CalibrationData(RInt(1), "left")

\* C6: while the controller is calibrating its timeout is pending with the
\* delay CALIBRATION_DURATION = 1000 ms, and when the timeout fires the
\* calibration is complete: calibrated, not calibrating, progress 1,
\* direction 'right' and speed the mean of the samples collected (0 for none).
C6_TimeoutCompletion ==
    [][/\ cs.state.isCalibrating =>
              cs.calibrationTimeout = [pending |-> TRUE, delay |-> 1000]
       /\ env'.call.op = "calibrationTimeout" =>
              /\ cs'.state.isCalibrated
              /\ ~cs'.state.isCalibrating
              /\ cs'.state.progress = RInt(1)
              /\ cs'.velocitySamples = cs.velocitySamples
              /\ cs'.state.calibrationData =
                     CalibrationData(Mean(cs.velocitySamples), "right")]_vars

\* The timeout completed a calibration that had collected three samples,
\* not all of them zero
C6_Witness ==
    /\ env.call.op = "calibrationTimeout"
    /\ cs.state.isCalibrated
    /\ Len(cs.velocitySamples) = 3
    /\ cs.state.calibrationData.speed = Rat(2, 3)
    /\ cs.state.calibrationData.direction = "right"

\* C7: calibration data that is set stays as it is through every call and
\* timer callback other than startCalibration, recalibrate and reset.
C7_CalibrationDataKept ==
    [][(/\ cs.state.calibrationData # NoData
        /\ env'.call.op \notin {"startCalibration", "recalibrate", "reset"})
       => cs'.state.calibrationData = cs.state.calibrationData]_vars

\* stopCalibration was called with calibration data set
C7_Witness ==
    /\ env.call.op = "stopCalibration"
    /\ cs.state.calibrationData # NoData

\* C8: the delay of a pending fallback interval, which is the duration of
\* every sweep it starts, is the duration the safety utility gives for the
\* sweep's distance at 200 px/s, and its cycle frequency 1000/duration lies
\* in [15, 25] Hz.
C8_FallbackDurationSafe ==
    (hk.sess # 0 /\ hk.autoScrollInterval.pending) =>
        LET t == hk.autoScrollInterval
            frequency == FDiv(FromInt(1000), t.delay)
        IN  /\ t.delay = calculateSafeAnimationDuration(
                             FromInt(t.screenWidth + t.textWidth),
                             FromInt(200))
            /\ FLeq(FromInt(15), frequency)
            /\ FLeq(frequency, FromInt(25))

\* C9: for a distance > 0 and a speed > 0 the duration returned by
\* calculateSafeAnimationDuration is finite and > 0 and the frequency
\* calculateFrequencyFromDuration gives for it lies in [15, 25] Hz; for a
\* distance <= 0 or a speed <= 0 the duration is 1000 ms.
C9_SafeDurationFrequency ==
    sf.called =>
        IF FLess(FromInt(0), sf.distance) /\ FLess(FromInt(0), sf.speed)
        THEN /\ FIsFinite(sf.duration)
             /\ FLess(FromInt(0), sf.duration)
             /\ FLeq(FromInt(15), sf.frequency)
             /\ FLeq(sf.frequency, FromInt(25))
        ELSE sf.duration = FromInt(1000)

\* C10: after startMonitoring(cb), also when cb was registered already, cb
\* is registered once and the service holds one subscription, one listener
\* on the device; after stopMonitoring(), also when monitoring was stopped
\* already, there are no data listeners, no state listeners, no
\* subscription, no listener on the device, and velocity, direction,
\* history and last timestamp are reset.
C10_StartStopIdempotent ==
    /\ env.call.op = "startMonitoring" =>
           /\ Count(ms.listeners, env.call.callback) = 1
           /\ ms.subscription
           /\ ms.deviceListeners = 1
    /\ env.call.op = "stopMonitoring" =>
           /\ ms.listeners = <<>>
           /\ ms.stateListeners = <<>>
           /\ ~ms.subscription
           /\ ms.deviceListeners = 0
           /\ ms.velocityHistory = <<>>
           /\ ms.currentVelocity = RInt(0)
           /\ ms.currentDirection = "stationary"
           /\ ms.lastTimestamp = 0

\* stopMonitoring() was called twice in a row in a run in which
\* startMonitoring had been called with a callback registered already
C10_Witness ==
    /\ env.repeated
    /\ env.call.op = "stopMonitoring"
    /\ env.prev.op = "stopMonitoring"

\* C11: while a session is in the display phase and none of its stop
\* handlers is under way, its auto-off timer is pending with the delay
\* AUTO_OFF_TIMEOUT = 180000 ms, whatever the mode and the calibration
\* state; and every session that reaches the display phase is unmounted in
\* the end (onStop was called), when pending timers fire and
\* restoreBrightness() settles.
C11_AutoOffStops ==
    /\ [](\A s \in 1..MaxSessions :
            (hk.sess = s /\ hk.phase = "displaying"
                 /\ sessions[s].stopping = 0)
            => hk.autoOff = [pending |-> TRUE, delay |-> 180000])
    /\ \A s \in 1..MaxSessions :
           (hk.sess = s /\ hk.phase = "displaying") ~> (hk.sess # s)

\* The auto-off timer of an IMU session that had started its calibration
\* fired, and its stop handler called onStop, which unmounted the session
C11_Witness ==
    /\ env.call.op = "autoOff"
    /\ hk.sess = 0
    /\ sessions[env.call.sess].tornDown
    /\ sessions[env.call.sess].startCalibrationCalls > 0

\* C12: in every reachable state of a session the scroll offset is a finite
\* number, and so is the target of the animation driving it, whatever the
\* window width is
C12_OffsetFinite ==
    hk.sess # 0 =>
        /\ isFiniteNumber(hk.translateX.value)
        /\ hk.translateX.animation.kind # "none"
               => isFiniteNumber(hk.translateX.animation.target)

\* The classification of velocity v as the specification states it
TempoOf(v, tempo) ==
    /\ tempo \in {"too-slow", "ok", "too-fast"}
    /\ tempo = "too-slow" <=> v[1] < 2 * v[2]
    /\ tempo = "too-fast" <=> v[1] > 8 * v[2]
    /\ v = <<199, 100>> => tempo = "too-slow"
    /\ v \in {<<2, 1>>, <<8, 1>>} => tempo = "ok"
    /\ v = <<801, 100>> => tempo = "too-fast"

\* C13: the tempo the controller computes for a velocity v, and the tempo
\* the sampler reports at current velocity v, is too-slow exactly when
\* v < 2, too-fast exactly when v > 8 and ok otherwise; 1.99 is too-slow,
\* 2 and 8 are ok, 8.01 is too-fast
C13_TempoClassification ==
    /\ TempoOf(ms.currentVelocity, getTempoIndicator(ms))
    /\ TempoOf(ms.currentVelocity, getState(ms).tempoIndicator)
    /\ env.call.op = "updateTempoIndicator"
           => TempoOf(env.call.velocity, cs.state.tempoIndicator)

\* The controller was given 8.01, the sampler's velocity after one reading
C13_Witness ==
    /\ env.call.op = "updateTempoIndicator"
    /\ env.call.velocity = <<801, 100>>
    /\ ms.currentVelocity = <<801, 100>>
    /\ cs.state.tempoIndicator = "too-fast"

\* C14: for finite arguments calculateSafeSpeedMultiplier returns a finite
\* number that is not negative
C14_MultiplierFiniteNonNegative ==
    (sf.called /\ env.call.op = "calculateSafeSpeedMultiplier") =>
        /\ FIsFinite(sf.multiplier)
        /\ ~FLess(sf.multiplier, FromInt(0))

\* C15: a calibration completes only while it is calibrating, so once per
\* startCalibration(): the step that completes it plays one success
\* haptic and leaves no timeout and no metronome interval pending, no
\* other step plays a success haptic, a sample added when no calibration
\* is under way changes nothing, and while the controller is calibrated no
\* timeout is pending that could complete it again
C15_CompletesOnce ==
    /\ [](cs.state.isCalibrated =>
             /\ ~cs.calibrationTimeout.pending
             /\ ~cs.metronomeInterval.pending)
    /\ [][LET completes == cs.state.isCalibrating /\ cs'.state.isCalibrated
          IN  /\ cs'.success = (IF completes THEN 1 ELSE 0)
              /\ completes =>
                    /\ env'.call.op \in {"addVelocitySample",
                                         "calibrationTimeout"}
                    /\ ~cs'.state.isCalibrating
                    /\ ~cs'.calibrationTimeout.pending
                    /\ ~cs'.metronomeInterval.pending
              /\ (~cs.state.isCalibrating
                     /\ env'.call.op = "addVelocitySample")
                    => cs' = Enter(cs)]_vars

\* A sample was added after the timeout had completed the calibration with
\* fewer than ten samples, and nothing happened
C15_Witness ==
    /\ env.call.op = "addVelocitySample"
    /\ cs.state.isCalibrated
    /\ Len(cs.velocitySamples) < 10
    /\ cs.success = 0
    /\ cs.notified = 0

\* The state of the lifecycle
CalPhase(c) ==
    IF c.state.isCalibrating THEN "calibrating"
    ELSE IF c.state.isCalibrated THEN "calibrated"
    ELSE "idle"

\* isCalibrating and isCalibrated are not both true, isCalibrated tells
\* whether calibrationData is set, and progress lies in [0, 1]
CalStateConsistent ==
    /\ ~(cs.state.isCalibrating /\ cs.state.isCalibrated)
    /\ cs.state.isCalibrated <=> cs.state.calibrationData # NoData
    /\ RLeq(RInt(0), cs.state.progress)
    /\ RLeq(cs.state.progress, RInt(1))

\* The transitions the claim lists: idle -> calibrating by startCalibration
\* (recalibrate calls it), calibrating -> calibrated by a completion,
\* calibrating -> idle by stopCalibration, any -> idle by reset
ListedTransition(p, q, op) ==
    \/ p = "idle" /\ q = "calibrating"
          /\ op \in {"startCalibration", "recalibrate"}
    \/ p = "calibrating" /\ q = "calibrated"
          /\ op \in {"addVelocitySample", "calibrationTimeout"}
    \/ p = "calibrating" /\ q = "idle" /\ op = "stopCalibration"
    \/ q = "idle" /\ op = "reset"

\* C16 as stated: the state is consistent and the lifecycle changes by the
\* listed transitions only
C16_ListedTransitionsOnly ==
    /\ []CalStateConsistent
    /\ [][CalPhase(cs') # CalPhase(cs) =>
            ListedTransition(CalPhase(cs), CalPhase(cs'), env'.call.op)]_vars

\* C16 as amended: the state is consistent and the lifecycle changes by the
\* listed transitions or from calibrated to calibrating, by
\* startCalibration or recalibrate
C16_Lifecycle ==
    /\ []CalStateConsistent
    /\ [][CalPhase(cs') # CalPhase(cs) =>
            \/ ListedTransition(CalPhase(cs), CalPhase(cs'), env'.call.op)
            \/ /\ CalPhase(cs) = "calibrated"
               /\ CalPhase(cs') = "calibrating"
               /\ env'.call.op \in {"startCalibration", "recalibrate"}]_vars

\* startCalibration was called on a calibrated controller, which is
\* calibrating again with the old data cleared
C16_Witness ==
    /\ env.call.op = "startCalibration"
    /\ env.call.calibrated
    /\ cs.state.isCalibrating
    /\ ~cs.state.isCalibrated
    /\ cs.state.calibrationData = NoData
    /\ cs.notified = 1

\* C17: between calls and timer callbacks the calibration timeout is
\* pending exactly while isCalibrating, the metronome interval runs exactly
\* while isCalibrating and metronomeEnabled, at most one metronome interval
\* is alive, and setMetronomeEnabled(true) outside a calibration starts no
\* interval and plays no tick
C17_TimersFollowCalibration ==
    /\ cs.calibrationTimeout.pending <=> cs.state.isCalibrating
    /\ cs.metronomeInterval.pending
          <=> (cs.state.isCalibrating /\ cs.state.metronomeEnabled)
    /\ cs.intervals = (IF cs.metronomeInterval.pending THEN 1 ELSE 0)
    /\ (/\ env.call.op = "setMetronomeEnabled"
        /\ env.call.enabled
        /\ ~cs.state.isCalibrating)
          => ~cs.metronomeInterval.pending /\ cs.ticks = 0

\* setMetronomeEnabled(true) was called on a calibrated controller
C17_Witness ==
    /\ env.call.op = "setMetronomeEnabled"
    /\ env.call.enabled
    /\ cs.state.isCalibrated
    /\ cs.state.metronomeEnabled
    /\ ~cs.metronomeInterval.pending

\* Whether a reading dt milliseconds after the last is one the sampler
\* m leaves out of its velocity estimate: its first, or one with
\* deltaTime <= 0 or deltaTime >= 0.1 s
Rejected(m, dt) == m.lastTimestamp = 0 \/ dt <= 0 \/ dt >= 100

\* C20: a rejected reading leaves velocityHistory, currentVelocity,
\* currentDirection, isCalibrated and calibrationData as they are, sets
\* the last timestamp to its own, and is delivered to every data listener;
\* a reading with 0 < deltaTime < 0.1 s is accepted, whatever came before
C20_RejectedReading ==
    [][env'.call.op = "sensorReading" =>
         IF Rejected(ms, env'.call.dt)
         THEN /\ ms'.velocityHistory = ms.velocityHistory
              /\ ms'.currentVelocity = ms.currentVelocity
              /\ ms'.currentDirection = ms.currentDirection
              /\ ms'.isCalibrated = ms.isCalibrated
              /\ ms'.calibrationData = ms.calibrationData
              /\ ms'.lastTimestamp = env'.now
              /\ \A i \in 1..Len(ms.listeners) :
                    Count(ms'.delivered, ms.listeners[i]) = 1
         ELSE /\ ms'.velocityHistory =
                    Append(ms.velocityHistory,
                           RAbs(RInt(env'.call.rotationX)))
              /\ ms'.lastTimestamp = env'.now]_vars

\* The third reading came 16 ms after one that was rejected for its
\* deltaTime of 0.1 s, and is the only one in the history
C20_Witness ==
    /\ env.readings = 3
    /\ env.prev.op = "sensorReading" /\ env.prev.dt = 100
    /\ env.call.op = "sensorReading" /\ env.call.dt = 16
    /\ Len(ms.velocityHistory) = 1
    /\ ms.lastTimestamp = env.now
    /\ Len(ms.listeners) = 2

\* The motion-data callbacks of session s registered with the sampler m
MotionCallbacksOf(m, s) ==
    {i \in 1..Len(m.listeners) :
        m.listeners[i].kind = "motion" /\ m.listeners[i].sess = s}

\* C19: while the mounted session displays in IMU mode, at most one of its
\* motion-data callbacks is registered with the MotionService, a sensor
\* reading makes at most one write to the offset, and the callback
\* registered clamps to the session's present textWidth and screenWidth
C19_OneMotionCallback ==
    (hk.sess # 0 /\ hk.phase = "displaying" /\ hk.displayMode = "imu") =>
        /\ Cardinality(MotionCallbacksOf(ms, hk.sess)) <= 1
        /\ \A i \in MotionCallbacksOf(ms, hk.sess) :
              /\ ms.listeners[i].textWidth = hk.textWidth
              /\ ms.listeners[i].screenWidth = hk.screenWidth
        /\ env.call.op = "sensorReading" =>
              Cardinality({i \in 1..Len(hk.written) :
                              hk.written[i].by = "imu"}) <= 1

\* C18: of a sensor reading, every state listener of the MotionService is
\* invoked exactly once and after every data listener, and the controller
\* takes at most one velocity sample
C18_OneBroadcastPerReading ==
    /\ [](env.call.op = "sensorReading" =>
            \A i \in 1..Len(ms.stateListeners) :
                /\ Count(ms.delivered, ms.stateListeners[i]) = 1
                /\ \A a, b \in 1..Len(ms.delivered) :
                      (/\ ms.delivered[a] = ms.stateListeners[i]
                       /\ Includes(ms.listeners, ms.delivered[b])) => b < a)
    /\ [][env'.call.op = "sensorReading" =>
            Len(cs'.velocitySamples) <= Len(cs.velocitySamples) + 1]_vars

\* C21: the MotionService is calibrated exactly when it holds calibration
\* data, and so does the state getState() reports; with no subscription,
\* as after stopMonitoring(), getState() reports isCalibrated false and
\* calibrationData null
C21_CalibratedIffData ==
    /\ ms.isCalibrated <=> ms.calibrationData # NoData
    /\ getState(ms).isCalibrated <=> getState(ms).calibrationData # NoData
    /\ ~ms.subscription =>
          /\ ~getState(ms).isCalibrated
          /\ getState(ms).calibrationData = NoData

\* C22: after a sensor reading of a session that displays in IMU mode and
\* whose initialize() has resolved, the isCalibrated of the MotionService
\* and the isCalibrated of the CalibrationService agree
C22_CalibrationFlagsAgree ==
    (/\ env.call.op = "sensorReading"
     /\ hk.sess # 0
     /\ hk.phase = "displaying"
     /\ hk.displayMode = "imu"
     /\ sessions[hk.sess].init = "done")
        => (ms.isCalibrated <=> cs.state.isCalibrated)

\* C23: the isCalibrated of the MotionService turns true only on an
\* accepted reading that leaves exactly 10 entries in velocityHistory whose
\* mean exceeds 0.5, and the data it stores is that mean with the current
\* direction, or 'right' when that is stationary; velocityHistory never
\* holds more than 10 entries; and while isCalibrated stays true no
\* reading changes calibrationData
C23_AutoCalibration ==
    /\ [](Len(ms.velocityHistory) <= 10)
    /\ [][(~ms.isCalibrated /\ ms'.isCalibrated) =>
            /\ env'.call.op = "sensorReading"
            /\ ~Rejected(ms, env'.call.dt)
            /\ Len(ms'.velocityHistory) = 10
            /\ RLess(Rat(1, 2), Mean(ms'.velocityHistory))
            /\ ms'.calibrationData =
                  CalibrationData(Mean(ms'.velocityHistory),
                                  IF ms'.currentDirection = "stationary"
                                  THEN "right" ELSE ms'.currentDirection)]_vars
    /\ [][(ms.isCalibrated /\ ms'.isCalibrated) =>
            ms'.calibrationData = ms.calibrationData]_vars

\* The sampler calibrated on a reading without rotation, so with the
\* direction 'right', and a later reading has shifted the history to a mean
\* the stored speed no longer is
C23_Witness ==
    /\ env.call.op = "sensorReading"
    /\ ms.isCalibrated
    /\ Len(ms.velocityHistory) = 10
    /\ ms.calibrationData.direction = "right"
    /\ ms.calibrationData.speed # Mean(ms.velocityHistory)
    /\ ms.currentDirection = "left"

\* C24: the MotionService holds a sensor subscription exactly while a data
\* listener is registered; removeListener(cb) takes cb out of the data
\* listeners and nothing else, leaves the subscription active exactly when
\* a listener remains, and changes nothing when cb was not registered
C24_SubscriptionIffListener ==
    /\ [](/\ ms.subscription <=> ms.listeners # <<>>
          /\ ms.deviceListeners = (IF ms.listeners # <<>> THEN 1 ELSE 0))
    /\ [][env'.call.op = "removeListener" =>
            LET cb == env'.call.callback
            IN  /\ \A x \in MotionProbes :
                      Includes(ms'.listeners, x)
                          <=> (Includes(ms.listeners, x) /\ x # cb)
                /\ Len(ms'.listeners) =
                      Len(ms.listeners) - Count(ms.listeners, cb)
                /\ ms'.subscription <=> ms'.listeners # <<>>
                /\ [ms' EXCEPT !.listeners = <<>>, !.subscription = FALSE,
                               !.deviceListeners = 0]
                      = [MotionEnter(ms) EXCEPT !.listeners = <<>>,
                                                !.subscription = FALSE,
                                                !.deviceListeners = 0]
                /\ ~Includes(ms.listeners, cb) => ms' = MotionEnter(ms)]_vars

\* The first of two registered listeners was removed after a reading, and
\* the subscription is still active for the other
C24_Witness ==
    /\ env.call.op = "removeListener"
    /\ env.prev.op = "sensorReading"
    /\ Len(ms.listeners) = 1
    /\ ms.listeners[1] # env.call.callback
    /\ ms.listeners[1].id = 2
    /\ ms.subscription
    /\ ms.deviceListeners = 1

\* C25: a call of the hook's recalibrate() leaves displayMode as it was;
\* the CalibrationService is calibrating with no samples, progress 0, not
\* calibrated, without data, and with a timeout of the full duration set
\* in this call; the MotionService is not calibrated, without data, with an
\* empty history and the subscription it had; and the offset is at rest at
\* screenWidth, or at 0 when screenWidth is not finite
C25_Recalibrate ==
    [][env'.call.op = "recalibrate" =>
         /\ hk'.displayMode = hk.displayMode
         /\ cs'.state.isCalibrating
         /\ cs'.velocitySamples = <<>>
         /\ cs'.state.progress = RInt(0)
         /\ ~cs'.state.isCalibrated
         /\ cs'.state.calibrationData = NoData
         /\ cs'.calibrationTimeout = [pending |-> TRUE, delay |-> 1000]
         /\ cs'.timeouts = 1
         /\ ~ms'.isCalibrated
         /\ ms'.calibrationData = NoData
         /\ ms'.velocityHistory = <<>>
         /\ ms'.subscription = ms.subscription
         /\ ms'.deviceListeners = ms.deviceListeners
         /\ hk'.translateX =
               [value |-> IF hk.screenWidth \in {NaN, Infinity} THEN RInt(0)
                          ELSE hk.screenWidth,
                animation |-> NoAnimation]]_vars

\* recalibrate() was called in IMU mode while the controller was calibrating
\* and the sampler had readings in its history
C25_Witness ==
    /\ env.call.op = "recalibrate"
    /\ hk.displayMode = "imu"
    /\ hk.phase = "displaying"
    /\ ms.subscription
    /\ ms.lastTimestamp > 0
    /\ ms.velocityHistory = <<>>
    /\ cs.state.isCalibrating
    /\ cs.notified = 2

\* C26: startCalibration() while isCalibrating changes nothing: the
\* samples, the state with its progress, the pending timeout, the
\* metronome interval and the listeners are as before, no timeout is set,
\* no tick is played and no listener is notified
C26_StartWhileCalibrating ==
    [][(env'.call.op = "startCalibration" /\ cs.state.isCalibrating) =>
         /\ cs' = Enter(cs)
         /\ cs'.timeouts = 0
         /\ cs'.notified = 0
         /\ cs'.outbox = <<>>]_vars

\* startCalibration() was called during a calibration that had collected
\* samples, and they are still there
C26_Witness ==
    /\ env.call.op = "startCalibration"
    /\ cs.state.isCalibrating
    /\ Len(cs.velocitySamples) = 2
    /\ cs.state.progress = Rat(2, 10)
    /\ cs.calibrationTimeout.pending
    /\ cs.metronomeInterval.pending
    /\ cs.notified = 0

\* C27: a step plays at most one tempo haptic (two in one step are played
\* at the same Date.now()); it plays one only when HAPTIC_THROTTLE_INTERVAL
\* has passed since the last of the same hook instance, the controller is
\* calibrated when it broadcasts, and the tempo broadcast differs from the
\* tempo of the last haptic
C27_TempoHapticThrottled ==
    [][cs'.tempoHaptics > 0 =>
         /\ cs'.tempoHaptics = 1
         /\ cs.state.isCalibrated \/ cs'.state.isCalibrated
         /\ \E s \in 1..Len(sessions) :
               /\ ~sessions[s].hapticRecent
               /\ sessions'[s].hapticRecent
               /\ sessions'[s].lastTempo # sessions[s].lastTempo]_vars

\* C28: updateTempoIndicator(velocity) notifies the listeners, once, exactly
\* when the classification of velocity differs from tempoIndicator, which
\* is then that classification; when it is the same nothing changes; and
\* isCalibrating, isCalibrated, progress and calibrationData stay as they
\* are in both cases
C28_TempoNotification ==
    [][env'.call.op = "updateTempoIndicator" =>
         LET same == TempoOf(env'.call.velocity, cs.state.tempoIndicator)
         IN  /\ cs'.notified = (IF same THEN 0 ELSE 1)
             /\ same => cs' = Enter(cs)
             /\ TempoOf(env'.call.velocity, cs'.state.tempoIndicator)
             /\ cs'.state.isCalibrating = cs.state.isCalibrating
             /\ cs'.state.isCalibrated = cs.state.isCalibrated
             /\ cs'.state.progress = cs.state.progress
             /\ cs'.state.calibrationData = cs.state.calibrationData]_vars

\* updateTempoIndicator(5) was called on a calibrated controller with a
\* listener whose indicator was 'ok' already, and nothing was sent
C28_Witness ==
    /\ env.call.op = "updateTempoIndicator"
    /\ env.call.velocity = RInt(5)
    /\ cs.state.tempoIndicator = "ok"
    /\ cs.state.isCalibrated
    /\ cs.listeners # <<>>
    /\ cs.notified = 0

\* The number x lies within a hundred-thousandth of the integer n
NearInt(x, n) ==
    /\ FLess(FDiv(FromInt(n * 100000 - 1), FromInt(100000)), x)
    /\ FLess(x, FDiv(FromInt(n * 100000 + 1), FromInt(100000)))

\* C30: the duration of the fallback sweep is (screenWidth + textWidth) /
\* 200 * 1000 ms, that is 5 ms for every pixel of the distance up to the
\* rounding of the division, and 200 ms where that is less; for
\* screenWidth 400 and textWidth 200 it is 3000 ms
C30_SweepDuration ==
    (sf.called /\ env.call.op = "autoScrollDuration") =>
        LET distance == sf.screenWidth + sf.textWidth
        IN  /\ FIsFinite(sf.duration)
            /\ FLeq(FromInt(200), sf.duration)
            /\ 5 * distance < 200 => sf.duration = FromInt(200)
            /\ 5 * distance >= 200 => NearInt(sf.duration, 5 * distance)
            /\ (sf.screenWidth = 400 /\ sf.textWidth = 200)
                  => sf.duration = FromInt(3000)

\* The duration was computed for screenWidth 400 and textWidth 200
C30_Witness ==
    /\ sf.called /\ env.call.op = "autoScrollDuration"
    /\ sf.screenWidth = 400 /\ sf.textWidth = 200
    /\ sf.duration = FromInt(3000)


\* The width and the text of the mounted session can be swept
SweepableDimensions ==
    /\ isFiniteNumber(hk.screenWidth)
    /\ ~NumNotPositive(hk.screenWidth)
    /\ hk.textWidth > 0

\* The mounted session is displaying in auto-scroll mode
FallbackActive ==
    /\ hk.sess # 0
    /\ hk.phase = "displaying"
    /\ hk.displayMode = "auto-scroll"

\* The fallback duration of the current dimensions
CurrentDuration == autoScrollDuration(IntOf(hk.screenWidth), hk.textWidth)

\* The offset has been reset to screenWidth and is animated to -textWidth
\* over the period of the interval, by the step that led here
SweepStarted ==
    /\ hk.translateX =
           [value |-> hk.screenWidth,
            animation |-> [kind |-> "timing", target |-> RInt(-hk.textWidth),
                           duration |-> hk.autoScrollInterval.delay]]
    /\ \E i \in 1..Len(hk.written) : hk.written[i].by = "auto"

\* The interval is live exactly with dimensions that can be swept, and its
\* period is the duration of the sweep
C29_IntervalFollowsDimensions ==
    FallbackActive =>
        IF SweepableDimensions
        THEN /\ hk.autoScrollInterval.pending
             /\ hk.autoScrollInterval.delay = CurrentDuration
        ELSE ~hk.autoScrollInterval.pending

\* A firing starts the sweep of the current dimensions, a step into
\* dimensions that cannot be swept starts none, and a step into ones that
\* can starts one
C29_SweepSteps ==
    [][/\ (env'.call.op = "autoScrollInterval" /\ FallbackActive')
            => SweepableDimensions' /\ SweepStarted'
       /\ (FallbackActive' /\ ~SweepableDimensions')
            => \A i \in 1..Len(hk'.written) : hk'.written[i].by # "auto"
       /\ (FallbackActive' /\ SweepableDimensions'
             /\ ~(FallbackActive /\ SweepableDimensions))
            => SweepStarted']_vars

\* While the session stays in auto-scroll mode with dimensions that can be
\* swept the interval fires again and again
C29_SweepsForever ==
    \/ []<>~(FallbackActive /\ SweepableDimensions)
    \/ ([]<>OddFiring /\ []<>EvenFiring)

\* C29: in auto-scroll mode with a finite positive screenWidth and a
\* positive textWidth the interval of the sweep is live and its period is
\* the duration of the sweep; each of its firings resets the offset to
\* screenWidth and animates it to -textWidth over that duration, and while
\* the session stays so the firings never end.  With a screenWidth or a
\* textWidth that is not positive or not finite no interval is live and no
\* step starts a sweep; the interval is live again as soon as the
\* dimensions are valid again.
C29_FallbackLoop ==
    /\ []C29_IntervalFollowsDimensions
    /\ C29_SweepSteps
    /\ C29_SweepsForever

\* An interval firing restarted the sweep in a session whose width had
\* been unusable and was changed back
C29_Witness ==
    /\ FallbackActive /\ SweepableDimensions
    /\ env.dimensionChanges = MaxFallbackDimensionChanges
    /\ EvenFiring
    /\ SweepStarted

====
